---- MODULE Spec2Model ----
(***************************************************************************)
(* A model of the crawl engine of the web-scrapper repository:             *)
(*   - URLProcessor.normalize_url / should_exclude_url                     *)
(*     (src/src/enhanced_scraper.py), computed on the URL strings;         *)
(*   - EnhancedWebScraper.scrape_url / scrape_multiple_urls                *)
(*     (src/src/enhanced_scraper.py), one asyncio task per URL;            *)
(*   - scrape_website / scrape_single_page (src/simple_scraper.py) and     *)
(*     scrape_website_async (src/src/test_api.py), the round-based crawl;  *)
(*   - the crawl loop of scrape_enhanced (src/src/main.py);                *)
(*   - _calculate_quality_score, the handlers of src/src/test_api.py and   *)
(*     ContentExtractor (src/src/enhanced_scraper.py) on one document;     *)
(*   - ConnectionPool and RequestBatcher                                   *)
(*     (src/src/services/batch_service.py), tasks of one event loop.       *)
(* URLs are TLA+ strings; urlparse, urlunparse, str.lower, str.rstrip,     *)
(* str.strip and str.startswith are computed character by character.      *)
(* The URLs of the model use the characters a-z, A-Z, 0-9 and " :/.#?";    *)
(* none holds ';', so urlparse's params component is always empty.         *)
(***************************************************************************)
EXTENDS Integers, Sequences, FiniteSets, TLC

VARIABLES
    \* ---- the normalize_url harness
    nz_url, nz_once, nz_twice, nz_pc,
    \* ---- EnhancedWebScraper: configuration and scrape_multiple_urls' arguments
    urls, max_retries, max_concurrent,
    \* ---- EnhancedWebScraper: object state and the asyncio tasks of one batch
    visited_urls, semaphore, pc, retry_count, result, processed_results,
    \* ---- history of the HTTP GETs each task issued
    attempts, requested, outcomes,
    \* ---- scrape_website / scrape_website_async: arguments
    sw_fn, sw_url, sw_depth, sw_max_pages, sw_include_images,
    \* ---- scrape_website: locals, the round's gather, and the URLs dispatched
    sw_pc, sw_current_depth, sw_scraped_pages, sw_visited_urls, sw_urls_to_visit,
    sw_tasks, sw_results, sw_dispatched, sw_rounds, sw_completed,
    \* ---- scrape_enhanced (main.py): request, locals, task record, GET history
    se_url, se_depth, se_max_pages,
    se_pc, se_scraped_pages, se_urls_to_scrape, se_visited_urls, se_task, se_fetched,
    se_round,
    \* ---- _calculate_quality_score: arguments and the score returned
    qs_content, qs_html_length, qs_score, qs_pc,
    \* ---- the test API (test_api.py): the module's dicts, the background
    \* ---- tasks, and the last answer of a GET handler
    task_status, scraping_results, api_runs, api_response,
    \* ---- ContentExtractor: the document as fetched, the parsed tree, scrape_url's
    \* ---- position, and the content and structured data extracted
    ex_html, ex_soup, ex_pc, ex_content, ex_links, ex_structured,
    \* ---- ConnectionPool (batch_service.py): the pool's fields, and each client
    \* ---- task's position and the connection it holds
    cp_max_connections, cp_connections, cp_active_connections, cp_lock, cp_pc, cp_conn,
    \* ---- RequestBatcher (batch_service.py): the batcher's fields, the batch
    \* ---- being processed, the sleeping _schedule_processing tasks, the futures
    rb_batch_size, rb_pending_requests, rb_processing, rb_batch, rb_scheduled, rb_future

nzVars == <<nz_url, nz_once, nz_twice, nz_pc>>
cfgVars == <<urls, max_retries, max_concurrent>>
scVars == <<visited_urls, semaphore, pc, retry_count, result, processed_results,
            attempts, requested, outcomes>>
swArgs == <<sw_fn, sw_url, sw_depth, sw_max_pages, sw_include_images>>
swVars == <<sw_pc, sw_current_depth, sw_scraped_pages, sw_visited_urls, sw_urls_to_visit,
            sw_tasks, sw_results, sw_dispatched, sw_rounds, sw_completed>>
seArgs == <<se_url, se_depth, se_max_pages>>
seVars == <<se_pc, se_scraped_pages, se_urls_to_scrape, se_visited_urls, se_task,
            se_fetched, se_round>>
qsVars == <<qs_content, qs_html_length, qs_score, qs_pc>>
apiVars == <<task_status, scraping_results, api_runs, api_response>>
exVars == <<ex_html, ex_soup, ex_pc, ex_content, ex_links, ex_structured>>
cpVars == <<cp_max_connections, cp_connections, cp_active_connections, cp_lock, cp_pc,
            cp_conn>>
rbVars == <<rb_batch_size, rb_pending_requests, rb_processing, rb_batch, rb_scheduled,
            rb_future>>
vars == <<nzVars, cfgVars, scVars, swArgs, swVars, seArgs, seVars, qsVars, apiVars, exVars,
          cpVars, rbVars>>

\* the variables of the other components
notNz == <<cfgVars, scVars, swArgs, swVars, seArgs, seVars, qsVars, apiVars,
          exVars, cpVars, rbVars>>
notSc == <<nzVars, swArgs, swVars, seArgs, seVars, qsVars, apiVars,
          exVars, cpVars, rbVars>>
notSw == <<nzVars, cfgVars, scVars, seArgs, seVars, qsVars, apiVars,
          exVars, cpVars, rbVars>>
notSe == <<nzVars, cfgVars, scVars, swArgs, swVars, qsVars, apiVars,
          exVars, cpVars, rbVars>>
notQs == <<nzVars, cfgVars, scVars, swArgs, swVars, seArgs, seVars, apiVars,
          exVars, cpVars, rbVars>>
notApi == <<nzVars, cfgVars, scVars, swArgs, swVars, seArgs, seVars, qsVars, exVars,
           cpVars, rbVars>>
notEx == <<nzVars, cfgVars, scVars, swArgs, swVars, seArgs, seVars, qsVars, apiVars,
          cpVars, rbVars>>
notCp == <<nzVars, cfgVars, scVars, swArgs, swVars, seArgs, seVars, qsVars, apiVars,
          exVars, rbVars>>
notRb == <<nzVars, cfgVars, scVars, swArgs, swVars, seArgs, seVars, qsVars, apiVars,
          exVars, cpVars>>

-----------------------------------------------------------------------------
(* Bounds of the model *)

MaxUrls == 2
MaxRetries == 1
MaxConcurrent == 2
MaxWww == 2
MaxSlashes == 2
MaxDepth == 3
MaxPages == 2
MaxPosts == 2
MaxElements == 2
MaxClients == 3
MaxConnections == 2
MaxRequests == 3
MaxBatchSize == 2

-----------------------------------------------------------------------------
(* Python's str operations, on TLA+ strings *)

Char(s, i) == SubSeq(s, i, i)

\* s[i:] of Python, for a 1-based first index
From(s, i) == SubSeq(s, i, Len(s))

\* s[:i-1] of Python: the characters before the 1-based index i
Before(s, i) == SubSeq(s, 1, i - 1)

StartsWith(s, p) == Len(p) <= Len(s) /\ SubSeq(s, 1, Len(p)) = p

EndsWith(s, p) == Len(p) <= Len(s) /\ SubSeq(s, Len(s) - Len(p) + 1, Len(s)) = p

\* str.find: the least 1-based index of the character c in s, 0 when absent
RECURSIVE FindFrom(_, _, _)
FindFrom(s, c, i) ==
    IF i > Len(s) THEN 0
    ELSE IF Char(s, i) = c THEN i
    ELSE FindFrom(s, c, i + 1)

Find(s, c) == FindFrom(s, c, 1)

\* the least index >= i of a character of s that occurs in the string delims
RECURSIVE FindAnyFrom(_, _, _)
FindAnyFrom(s, delims, i) ==
    IF i > Len(s) THEN 0
    ELSE IF Find(delims, Char(s, i)) > 0 THEN i
    ELSE FindAnyFrom(s, delims, i + 1)

Contains(s, p) == \E i \in 1..(Len(s) - Len(p) + 1) : SubSeq(s, i, i + Len(p) - 1) = p

UpperChars == "ABCDEFGHIJKLMNOPQRSTUVWXYZ"
LowerChars == "abcdefghijklmnopqrstuvwxyz"
DigitChars == "0123456789"

LowerChar(c) ==
    IF Find(UpperChars, c) > 0 THEN Char(LowerChars, Find(UpperChars, c)) ELSE c

\* str.lower
RECURSIVE Lower(_)
Lower(s) == IF s = "" THEN "" ELSE LowerChar(Head(s)) \o Lower(Tail(s))

\* str.rstrip(c)
RECURSIVE RStrip(_, _)
RStrip(s, c) ==
    IF s # "" /\ Char(s, Len(s)) = c THEN RStrip(Before(s, Len(s)), c) ELSE s

RECURSIVE LStrip(_, _)
LStrip(s, c) == IF s # "" /\ Head(s) = c THEN LStrip(Tail(s), c) ELSE s

\* str.strip(): the model's only whitespace character is the space
Strip(s) == RStrip(LStrip(s, " "), " ")

IsAlpha(c) == Find(UpperChars, c) > 0 \/ Find(LowerChars, c) > 0

\* urllib.parse.scheme_chars
IsSchemeChar(c) == IsAlpha(c) \/ Find(DigitChars, c) > 0 \/ Find("+-.", c) > 0

-----------------------------------------------------------------------------
(* urllib.parse.urlparse and urlunparse (as called by normalize_url) *)

\* url.split(c, 1) at the 1-based index i of c in url (0: c is absent)
CutAt(url, i) ==
    IF i = 0 THEN [head |-> url, tail |-> ""]
    ELSE [head |-> Before(url, i), tail |-> From(url, i + 1)]

Partition(url, c) == CutAt(url, Find(url, c))

\* urlsplit, the scheme: the run before the first ':' (at index i) when it
\* is not empty, starts with a letter and holds scheme characters only
TakeScheme(u, i) ==
    IF i > 1 /\ IsAlpha(Head(u)) /\ \A k \in 1..(i - 1) : IsSchemeChar(Char(u, k))
    THEN [scheme |-> Lower(Before(u, i)), url |-> From(u, i + 1)]
    ELSE [scheme |-> "", url |-> u]

\* urlsplit, the netloc: after "//", up to the first of "/?#" (at index d)
TakeNetloc(url, d) ==
    IF ~StartsWith(url, "//") THEN [netloc |-> "", url |-> url]
    ELSE IF d = 0 THEN [netloc |-> From(url, 3), url |-> ""]
    ELSE [netloc |-> SubSeq(url, 3, d - 1), url |-> From(url, d)]

\* urlsplit, the fragment (f is the rest cut at '#') and then the query
TakeQuery(scheme, netloc, fragment, q) ==
    [scheme |-> scheme, netloc |-> netloc, path |-> q.head, query |-> q.tail,
     fragment |-> fragment]

TakeFragment(scheme, netloc, f) ==
    TakeQuery(scheme, netloc, f.tail, Partition(f.head, "?"))

ParseAfterNetloc(scheme, n) == TakeFragment(scheme, n.netloc, Partition(n.url, "#"))

ParseAfterScheme(s) ==
    ParseAfterNetloc(s.scheme, TakeNetloc(s.url, FindAnyFrom(s.url, "/?#", 3)))

\* urlparse of a url without leading whitespace
urlparse(u) == ParseAfterScheme(TakeScheme(u, Find(u, ":")))

\* urllib.parse.uses_netloc
UsesNetloc ==
    {"", "ftp", "http", "gopher", "nntp", "telnet", "imap", "wais", "file", "mms",
     "https", "shttp", "snews", "prospero", "rtsp", "rtspu", "rsync", "svn",
     "svn+ssh", "sftp", "nfs", "git", "git+ssh", "ws", "wss"}

\* urlunsplit, step by step
WithNetloc(scheme, netloc, url) ==
    IF netloc # "" \/ (scheme # "" /\ scheme \in UsesNetloc /\ ~StartsWith(url, "//"))
    THEN "//" \o netloc \o (IF url # "" /\ Head(url) # "/" THEN "/" \o url ELSE url)
    ELSE url

WithScheme(scheme, url) == IF scheme # "" THEN scheme \o ":" \o url ELSE url

WithQuery(url, query) == IF query # "" THEN url \o "?" \o query ELSE url

WithFragment(url, fragment) == IF fragment # "" THEN url \o "#" \o fragment ELSE url

\* urlunparse with empty params, which is urlunsplit
urlunparse(p) ==
    WithFragment(WithQuery(WithScheme(p.scheme, WithNetloc(p.scheme, p.netloc, p.path)),
                           p.query),
                 p.fragment)

-----------------------------------------------------------------------------
(* URLProcessor *)

\* "Normalize scheme": only a missing scheme is set
NormalizeScheme(scheme) == IF scheme = "" THEN "https" ELSE scheme

\* "Remove www. prefix for consistency"
StripWww(netloc) ==
    IF StartsWith(netloc, "www.") /\ Len(netloc) > 4 THEN From(netloc, 5) ELSE netloc

\* "Normalize netloc": lower-case, then drop one leading "www."
NormalizeNetlocNoLower(netloc) == StripWww(netloc)

NormalizeNetloc(netloc) == StripWww(Lower(netloc))

OrRoot(path) == IF path = "" THEN "/" ELSE path

\* "Clean path"
NormalizePath(path) == OrRoot(RStrip(path, "/"))

NormalizeParsed(parsed) ==
    urlunparse([scheme   |-> NormalizeScheme(parsed.scheme),
                netloc   |-> NormalizeNetloc(parsed.netloc),
                path     |-> NormalizePath(parsed.path),
                query    |-> parsed.query,
                fragment |-> ""])

normalize_url(url) == NormalizeParsed(urlparse(Strip(url)))

\* ScrapingConfig.exclude_patterns: the patterns anchored with $ ...
\* url_domain of is_valid_url, from the lower-cased netloc
UrlDomain(netloc) == IF StartsWith(netloc, "www.") THEN From(netloc, 5) ELSE netloc

IsValidParsed(parsed, base_domain) ==
    IF parsed.scheme = "" \/ parsed.netloc = "" THEN FALSE
    ELSE IF parsed.scheme \notin {"http", "https"} THEN FALSE
    ELSE IF base_domain # "" /\ UrlDomain(Lower(parsed.netloc)) # base_domain THEN FALSE
    ELSE TRUE

\* URLProcessor.is_valid_url(url, base_domain); base_domain "" stands for None
is_valid_url(url, base_domain) == IsValidParsed(urlparse(url), base_domain)

ExcludeSuffixes ==
    {".pdf", ".doc", ".docx", ".xls", ".xlsx", ".ppt", ".pptx", ".zip", ".rar",
     ".tar.gz", ".exe", ".dmg", ".mp3", ".mp4", ".avi", ".mov", ".wmv", ".flv",
     ".jpg", ".jpeg", ".png", ".gif", ".bmp", ".svg"}

\* ... and the unanchored ones
ExcludeSubstrings == {"mailto:", "tel:", "ftp:", "javascript:"}

\* re.search(pattern, url, re.IGNORECASE) for some pattern
should_exclude_url_cased(url) ==
    \/ \E s \in ExcludeSuffixes : EndsWith(url, s)
    \/ \E s \in ExcludeSubstrings : Contains(url, s)

should_exclude_url(url) ==
    LET l == Lower(url) IN
        \/ \E s \in ExcludeSuffixes : EndsWith(l, s)
        \/ \E s \in ExcludeSubstrings : Contains(l, s)

-----------------------------------------------------------------------------
(* The normalize_url harness: one URL, normalized once and then again *)

RECURSIVE Repeat(_, _)
Repeat(s, n) == IF n = 0 THEN "" ELSE s \o Repeat(s, n - 1)

NzSchemes == {"http://", "https://", "//", ""}
NzHosts == {"example.com", "Example.com", "WWW.Example.com", ""}
NzPaths == {"", "/a", "/f.pdf"}
NzFragments == {"", "#top"}

NzUrls ==
    {sch \o Repeat("www.", w) \o h \o p \o Repeat("/", t) \o f :
        sch \in NzSchemes, w \in 0..MaxWww, h \in NzHosts, p \in NzPaths,
        t \in 0..MaxSlashes, f \in NzFragments}

NzIdle == nz_url = "" /\ nz_once = "" /\ nz_twice = "" /\ nz_pc = "idle"

NzNormalize ==
    /\ nz_pc = "input"
    /\ nz_once' = normalize_url(nz_url)
    /\ nz_pc' = "once"
    /\ UNCHANGED <<nz_url, nz_twice, notNz>>

NzNormalizeAgain ==
    /\ nz_pc = "once"
    /\ nz_twice' = normalize_url(nz_once)
    /\ nz_pc' = "twice"
    /\ UNCHANGED <<nz_url, nz_once, notNz>>

-----------------------------------------------------------------------------
(* EnhancedWebScraper: one scrape_multiple_urls(urls, max_concurrent) call  *)
(* on a fresh scraper. Task i is scrape_with_semaphore(urls[i]); pc[i] is   *)
(* the await it is suspended at:                                            *)
(*   "pending"  waiting for the semaphore                                   *)
(*   "get"      in scrape_url, awaiting session.get                         *)
(*   "sleep"    in scrape_url's except handler, in the backoff sleep        *)
(*   "delay"    scrape_url returned, in the delay_between_requests sleep    *)
(*   "done"     the task returned its result                                *)
(* asyncio runs one task at a time and switches only at an await, so every  *)
(* action is the code between two awaits.                                   *)

\* ScrapingConfig.delay_between_requests
delay_between_requests == 1

\* the raw URLs a batch is drawn from
BatchUrls ==
    {"http://Example.com/a/", "https://www.example.com/a", "https://Example.com/a/",
     "https://example.com/f.PDF", "https://example.com/a#x.pdf", "http:///a"}

\* where a server may redirect a request to ("": no redirect)
RedirectUrls == {"", "https://www.example.com/b/"}

StatusCodes == {200, 403, 404, 500, 503}

\* normalize_url and should_exclude_url on the URLs of a batch, evaluated once
Normalized == [u \in BatchUrls \cup RedirectUrls |-> normalize_url(u)]

Excluded == [u \in {Normalized[v] : v \in BatchUrls} |-> should_exclude_url(u)]

\* the URLs aiohttp takes: for a URL without a host session.get raises
\* InvalidURL, a ClientError, before any network traffic
Valid == [u \in BatchUrls \cup {Normalized[v] : v \in BatchUrls} |-> is_valid_url(u, "")]

\* how one session.get can end: a response (with a status), or an exception:
\* asyncio.TimeoutError, aiohttp.ClientError, any other Exception
Outcomes == {"response", "timeout", "client_error", "unexpected"}

Tasks == 1..Len(urls)

\* a result dict; status_code 0 stands for a dict without that key
Result(error, url, status_code) ==
    [error |-> error, url |-> url, status_code |-> status_code]

NoResult == Result("", "", 0)

\* the message of a response whose status is not 200
ErrorMsg(status) ==
    CASE status = 404 -> "Page not found"
      [] status = 403 -> "Access forbidden"
      [] status = 500 -> "Server error"
      [] OTHER -> "HTTP " \o ToString(status)

\* asyncio.Semaphore: acquire() goes on without waiting iff the value is positive
SemaphoreFreeAlways(value) == TRUE

SemaphoreFree(value) == value > 0

\* self.visited_urls.add(normalized_url)
MarkVisitedNot(visited, normalized_url) == visited

MarkVisitedOnly(visited, normalized_url) == {normalized_url}

MarkVisited(visited, normalized_url) == visited \cup {normalized_url}

\* (the variant leaves the "async with" before it sleeps)
ReturnedReleasing(i, res, sem) ==
    /\ result' = [result EXCEPT ![i] = res]
    /\ pc' = [pc EXCEPT ![i] = IF delay_between_requests > 0 THEN "delay" ELSE "done"]
    /\ semaphore' = sem + 1

\* scrape_url returned res into scrape_with_semaphore, which holds the
\* semaphore (of value sem): it sleeps delay_between_requests when positive,
\* or else leaves the "async with" and returns
Returned(i, res, sem) ==
    /\ result' = [result EXCEPT ![i] = res]
    /\ IF delay_between_requests > 0
       THEN pc' = [pc EXCEPT ![i] = "delay"] /\ semaphore' = sem
       ELSE pc' = [pc EXCEPT ![i] = "done"] /\ semaphore' = sem + 1

\* scrape_url(urls[i], retry) from its first line to its first await
\* (session.get) or to its return
ScrapeUrlFrom(i, retry, sem, normalized_url) ==
        IF normalized_url \in visited_urls
        THEN /\ Returned(i, Result("Already visited", urls[i], 0), sem)
             /\ UNCHANGED <<visited_urls, retry_count, attempts, requested, outcomes>>
        ELSE IF Excluded[normalized_url]
        THEN /\ Returned(i, Result("URL excluded by pattern", urls[i], 0), sem)
             /\ UNCHANGED <<visited_urls, retry_count, attempts, requested, outcomes>>
        ELSE /\ visited_urls' = MarkVisited(visited_urls, normalized_url)
             /\ pc' = [pc EXCEPT ![i] = "get"]
             /\ retry_count' = [retry_count EXCEPT ![i] = retry]
             /\ attempts' = [attempts EXCEPT ![i] = @ + 1]
             /\ requested' = [requested EXCEPT ![i] = normalized_url]
             /\ semaphore' = sem
             /\ UNCHANGED <<result, outcomes>>

ScrapeUrlEnter(i, retry, sem) == ScrapeUrlFrom(i, retry, sem, Normalized[urls[i]])

\* task i gets the semaphore (tasks are started, and woken, in the order of
\* urls) and runs scrape_url up to its first await
Acquire(i) ==
    /\ pc[i] = "pending"
    /\ \A j \in 1..(i - 1) : pc[j] # "pending"
    /\ SemaphoreFree(semaphore)
    /\ ScrapeUrlEnter(i, 0, semaphore - 1)
    /\ UNCHANGED <<notSc, cfgVars, processed_results>>

\* retry_count < self.config.max_retries
MayRetry(retry, max) == retry < max

\* the retry of the except handlers
RetryOrFail(i, error) ==
    IF MayRetry(retry_count[i], max_retries)
    THEN /\ pc' = [pc EXCEPT ![i] = "sleep"]
         /\ UNCHANGED <<result, semaphore>>
    ELSE Returned(i, Result(error, urls[i], 0), semaphore)

\* the status check of scrape_url
StatusResultAsPage(status, normalized_url) == Result("", normalized_url, status)

StatusResult(status, normalized_url) ==
    IF status # 200
    THEN Result(ErrorMsg(status), normalized_url, status)
    ELSE Result("", normalized_url, status)

\* session.get of task i ends with outcome o: a response has a status and
\* the URL final it was redirected to ("" when response.history is empty)
Response(i, o, status, final) ==
    /\ pc[i] = "get"
    /\ o \in Outcomes /\ status \in StatusCodes /\ final \in RedirectUrls
    /\ o = "response" \/ (status = 200 /\ final = "")
    /\ ~Valid[requested[i]] => o = "client_error"
    /\ outcomes' = [outcomes EXCEPT ![i] =
                        @ \cup {[kind |-> o, status |-> IF o = "response" THEN status ELSE 0]}]
    /\ CASE o = "response" ->
                Returned(i, StatusResult(status, IF final # "" THEN Normalized[final]
                                                 ELSE Normalized[urls[i]]),
                         semaphore)
         [] o = "timeout" -> RetryOrFail(i, "Timeout")
         [] o = "client_error" -> RetryOrFail(i, "Client error")
         [] OTHER -> Returned(i, Result("Unexpected error", urls[i], 0), semaphore)
    /\ UNCHANGED <<notSc, cfgVars, visited_urls, retry_count, attempts, requested,
                   processed_results>>

\* the backoff sleep is over: return await self.scrape_url(url, retry_count + 1)
Retry(i) ==
    /\ pc[i] = "sleep"
    /\ ScrapeUrlEnter(i, retry_count[i] + 1, semaphore)
    /\ UNCHANGED <<notSc, cfgVars, processed_results>>

\* the delay is over: the task leaves the "async with" and returns
DelayDone(i) ==
    /\ pc[i] = "delay"
    /\ pc' = [pc EXCEPT ![i] = "done"]
    /\ semaphore' = semaphore + 1
    /\ UNCHANGED <<notSc, cfgVars, visited_urls, retry_count, result, attempts,
                   requested, outcomes, processed_results>>

\* the loop over enumerate(results): every result of the gather is appended
\* (an Exception as an error dict for urls[i]; scrape_url catches every
\* Exception, so the tasks return dicts)
ProcessedSuccesses(results) == SelectSeq(results, LAMBDA res : res.error = "")

Processed(results) == [i \in 1..Len(results) |-> results[i]]

\* asyncio.gather returned: the results in the order of urls
Gather ==
    /\ processed_results = <<>>
    /\ \A i \in Tasks : pc[i] = "done"
    /\ processed_results' = Processed([i \in Tasks |-> result[i]])
    /\ UNCHANGED <<notSc, cfgVars, visited_urls, semaphore, pc, retry_count, result,
                   attempts, requested, outcomes>>

-----------------------------------------------------------------------------
(* scrape_website (simple_scraper.py) and scrape_website_async             *)
(* (test_api.py): one crawl job. sw_pc is the job's position:               *)
(*   "loop"    at the top of "for current_depth in range(depth)"            *)
(*   "gather"  awaiting asyncio.gather of the round's scrape_single_page    *)
(*   "done"    returned the summary                                         *)
(* The two functions differ in the condition under which links are          *)
(* collected. The pages of the site are decided by the server when they are *)
(* fetched: any list of links, any error.                                   *)

SwFunctions == {"scrape_website", "scrape_website_async"}

SwSeeds == {"http://example.com"}

\* the hrefs a page can hold, in document order (all absolute: scrape_single_page
\* keeps the hrefs that start with "http")
SwHrefs == <<"http://example.com/a", "http://example.com/a/", "http://other.org/x">>

\* the subsequence of seq at the indices in S
RECURSIVE Pick(_, _, _)
Pick(seq, S, k) ==
    IF k > Len(seq) THEN <<>>
    ELSE (IF k \in S THEN <<seq[k]>> ELSE <<>>) \o Pick(seq, S, k + 1)

\* "links": links[:100]
LinksLimit == 100

\* how many further links, all to another site, may follow those of SwHrefs
SwMoreLinks == {0, LinksLimit - 1}

\* the links (hrefs that start with "http") of a page, in document order
SwLinkLists ==
    {Pick(SwHrefs, S, 1) \o [k \in 1..n |-> "http://other.org/y"] :
        S \in SUBSET (1..Len(SwHrefs)), n \in SwMoreLinks}

SwStatusCodes == {200, 404, 500}

\* links[:n]
FirstNAll(links, n) == links

FirstN(links, n) == SubSeq(links, 1, IF Len(links) < n THEN Len(links) ELSE n)

\* a result dict of scrape_single_page: error "" stands for a dict without
\* the key "error"; url "" marks a task that has not finished
SwPage(url, links) ==
    [error |-> "", url |-> url, links |-> FirstN(links, LinksLimit),
     links_count |-> Len(links)]
SwError(url, error) == [error |-> error, url |-> url, links |-> <<>>, links_count |-> 0]
SwPending == [error |-> "", url |-> "", links |-> <<>>, links_count |-> 0]

\* scrape_single_page(session, url) for the response, or exception, it gets
scrape_single_page_unchecked(url, status, links, raised) == SwPage(url, links)

scrape_single_page(url, status, links, raised) ==
    IF raised THEN SwError(url, "exception")
    ELSE IF status # 200 THEN SwError(url, "HTTP " \o ToString(status))
    ELSE SwPage(url, links)

\* len(scraped_pages) < max_pages, in the loop that builds the round's tasks
MayDispatch(pages, max_pages) == Len(pages) < max_pages

\* the loop over current_urls: the tasks of the round and the visited set
RECURSIVE SwSelect(_, _)
SwSelect(current_urls, visited) ==
    IF current_urls = <<>> THEN [tasks |-> <<>>, visited |-> visited]
    ELSE LET url_to_scrape == Head(current_urls) IN
        IF url_to_scrape \notin visited /\ MayDispatch(sw_scraped_pages, sw_max_pages)
        THEN LET rest == SwSelect(Tail(current_urls), visited \cup {url_to_scrape})
             IN  [tasks |-> <<url_to_scrape>> \o rest.tasks, visited |-> rest.visited]
        ELSE SwSelect(Tail(current_urls), visited)

\* "Collect links for next depth level"
SwCollectsLinksOfFirstPage ==
    /\ sw_current_depth < sw_depth - 1 /\ Len(sw_scraped_pages) = 0
    /\ sw_fn = "scrape_website_async" => sw_include_images

SwCollectsLinksAlways == sw_fn = "scrape_website_async" => sw_include_images

SwCollectsLinks ==
    /\ sw_current_depth < sw_depth - 1
    /\ sw_fn = "scrape_website_async" => sw_include_images

SwFollow(link_url) ==
    link_url # "" /\ StartsWith(link_url, sw_url) /\ link_url \notin sw_visited_urls

\* the loop over the gathered results, from result k on
RECURSIVE SwFold(_, _, _)
SwFold(k, pages, to_visit) ==
    IF k > Len(sw_tasks) THEN [pages |-> pages, to_visit |-> to_visit]
    ELSE IF sw_results[k].error = ""
    THEN SwFold(k + 1, Append(pages, sw_results[k]),
                IF SwCollectsLinks
                THEN to_visit \o SelectSeq(sw_results[k].links, SwFollow)
                ELSE to_visit)
    ELSE SwFold(k + 1, pages, to_visit)

\* "for current_depth in range(depth)" is exhausted, or the break at its top
SwLoopEndsOnDepthOnly == sw_current_depth >= sw_depth

SwLoopEnds ==
    \/ sw_current_depth >= sw_depth
    \/ sw_urls_to_visit = <<>>
    \/ Len(sw_scraped_pages) >= sw_max_pages

\* one pass from the top of the for loop to the gather, to the next pass,
\* or out of the loop; sw_rounds keeps the pass each URL was dispatched in
SwRound ==
    /\ sw_pc = "loop"
    /\ IF SwLoopEnds
       THEN /\ sw_pc' = "done"
            /\ UNCHANGED <<sw_current_depth, sw_visited_urls, sw_urls_to_visit,
                           sw_tasks, sw_results, sw_dispatched, sw_rounds>>
       ELSE LET sel == SwSelect(sw_urls_to_visit, sw_visited_urls) IN
            /\ sw_urls_to_visit' = <<>>
            /\ sw_visited_urls' = sel.visited
            /\ sw_dispatched' = sw_dispatched \o sel.tasks
            /\ sw_rounds' = sw_rounds \o [k \in 1..Len(sel.tasks) |-> sw_current_depth]
            /\ sw_tasks' = sel.tasks
            /\ sw_results' = [k \in 1..Len(sel.tasks) |-> SwPending]
            /\ IF sel.tasks = <<>>
               THEN sw_pc' = "loop" /\ sw_current_depth' = sw_current_depth + 1
               ELSE sw_pc' = "gather" /\ UNCHANGED sw_current_depth
    /\ UNCHANGED <<notSw, swArgs, sw_scraped_pages, sw_completed>>

\* the list asyncio.gather returns holds the result of task k at index k,
\* whenever task k finishes (the variant fills the list as the tasks finish)
GatheredAsCompleted(results, k, res) ==
    [results EXCEPT ![CHOOSE n \in 1..Len(results) :
                          /\ results[n] = SwPending
                          /\ \A m \in 1..(n - 1) : results[m] # SwPending] = res]

Gathered(results, k, res) == [results EXCEPT ![k] = res]

\* task k of the round finishes its scrape_single_page; sw_completed keeps
\* the URLs of the job in the order in which their fetches finished
SwPageDone(k, status, links, raised) ==
    /\ sw_pc = "gather"
    /\ k \in 1..Len(sw_tasks) /\ sw_results[k] = SwPending
    /\ status \in SwStatusCodes /\ links \in SwLinkLists /\ raised \in BOOLEAN
    /\ (raised \/ status # 200) => links = <<>>
    /\ raised => status = 200
    /\ sw_results' = Gathered(sw_results, k,
                               scrape_single_page(sw_tasks[k], status, links, raised))
    /\ sw_completed' = Append(sw_completed, sw_tasks[k])
    /\ UNCHANGED <<notSw, swArgs, sw_pc, sw_current_depth, sw_scraped_pages,
                   sw_visited_urls, sw_urls_to_visit, sw_tasks, sw_dispatched, sw_rounds>>

\* asyncio.gather returns once every task of the round has returned
SwGatheredAlways == TRUE

SwGathered == \A k \in 1..Len(sw_tasks) : sw_results[k] # SwPending

\* the gather returned: the loop over its results, to the top of the for loop
SwCollect ==
    /\ sw_pc = "gather"
    /\ SwGathered
    /\ LET f == SwFold(1, sw_scraped_pages, sw_urls_to_visit) IN
           /\ sw_scraped_pages' = f.pages
           /\ sw_urls_to_visit' = f.to_visit
    /\ sw_current_depth' = sw_current_depth + 1
    /\ sw_pc' = "loop"
    /\ UNCHANGED <<notSw, swArgs, sw_visited_urls, sw_tasks, sw_results, sw_dispatched,
                   sw_rounds, sw_completed>>

\* summary["total_links"]: sum(len(page.get("links", [])) for page in scraped_pages)
\* (the variant sums page["links_count"], as the summary of scrape_enhanced does)
RECURSIVE total_links_count(_)
total_links_count(pages) ==
    IF pages = <<>> THEN 0 ELSE Head(pages).links_count + total_links_count(Tail(pages))

RECURSIVE total_links(_)
total_links(pages) ==
    IF pages = <<>> THEN 0 ELSE Len(Head(pages).links) + total_links(Tail(pages))

SwIdle ==
    /\ sw_fn = "" /\ sw_url = "" /\ sw_depth = 0 /\ sw_max_pages = 0
    /\ sw_include_images = FALSE
    /\ sw_pc = "idle" /\ sw_current_depth = 0 /\ sw_scraped_pages = <<>>
    /\ sw_visited_urls = {} /\ sw_urls_to_visit = <<>> /\ sw_tasks = <<>>
    /\ sw_results = <<>> /\ sw_dispatched = <<>> /\ sw_rounds = <<>>
    /\ sw_completed = <<>>

-----------------------------------------------------------------------------
(* The crawl loop of scrape_enhanced (main.py, DEV_MODE): a sequential loop *)
(* over urls_to_scrape with blocking urllib requests, inside one try block. *)
(* se_pc is "loop" at the top of the while loop and "done" once the handler *)
(* has returned; se_task is dev_tasks[task_id].                             *)

SeSeeds == {"http://example.com"}

\* the hrefs of the anchors (with a text) a page can hold, in document order
SeHrefs == <<"/a", "http://example.com/a", "http://example.com/b", "http://other.org/x">>

SeLinkLists == {Pick(SeHrefs, S, 1) : S \in SUBSET (1..Len(SeHrefs))}

\* how urllib.request.urlopen can end: a body, or an exception (HTTPError for
\* an error status, URLError, a timeout)
SeOutcomes == {"ok", "http_error", "url_error"}

\* urljoin(base, href) for an href that is an absolute path
JoinParsed(base, href) ==
    urlunparse([scheme |-> base.scheme, netloc |-> base.netloc,
                path |-> href, query |-> "", fragment |-> ""])

urljoin(base, href) == JoinParsed(urlparse(base), href)

\* the href as the loop over the anchors keeps it ("" for a skipped anchor)
SeResolve(current_url, href) ==
    IF StartsWith(href, "/") THEN urljoin(current_url, href)
    ELSE IF ~(StartsWith(href, "http://") \/ StartsWith(href, "https://")) THEN ""
    ELSE href

\* "Add internal links for deeper scraping"
SeFollows(current_url, href, to_scrape) ==
    /\ se_depth > 1 /\ Len(se_scraped_pages) = 0
    /\ href \notin se_visited_urls \cup {current_url}
    /\ \A k \in 1..Len(to_scrape) : to_scrape[k] # href
    /\ urlparse(href).netloc = urlparse(current_url).netloc

\* the loop over the anchors of the page: its links and the new urls_to_scrape
RECURSIVE SeAnchors(_, _, _, _)
SeAnchor(current_url, hrefs, links, to_scrape, href) ==
    IF href = "" THEN SeAnchors(current_url, Tail(hrefs), links, to_scrape)
    ELSE SeAnchors(current_url, Tail(hrefs), Append(links, href),
                   IF SeFollows(current_url, href, to_scrape)
                   THEN Append(to_scrape, href) ELSE to_scrape)

SeAnchors(current_url, hrefs, links, to_scrape) ==
    IF hrefs = <<>> THEN [links |-> links, to_scrape |-> to_scrape]
    ELSE SeAnchor(current_url, hrefs, links, to_scrape,
                  SeResolve(current_url, Head(hrefs)))

\* the body of the "with urlopen" block: the page and the new urls_to_scrape;
\* se_round keeps the round each URL was discovered in: one more than the
\* round of the page that links to it
SePage(current_url, a) ==
    /\ se_urls_to_scrape' = a.to_scrape
    /\ se_round' = [u \in DOMAIN se_round \cup {a.to_scrape[k] : k \in 1..Len(a.to_scrape)} |->
                       IF u \in DOMAIN se_round THEN se_round[u]
                       ELSE se_round[current_url] + 1]
    /\ se_scraped_pages' = Append(se_scraped_pages, [url |-> current_url, links |-> a.links])
    /\ UNCHANGED <<se_pc, se_task>>

\* the except handler of the try block around the loop
SeFailed == [status |-> "failed", pages |-> <<>>]

\* one iteration of the while loop: the request of the next URL ends with
\* outcome o and a page that holds hrefs
SeIteration(o, hrefs) ==
    /\ se_pc = "loop"
    /\ se_urls_to_scrape # <<>> /\ Len(se_scraped_pages) < se_max_pages
    /\ o \in SeOutcomes /\ hrefs \in SeLinkLists
    /\ o # "ok" => hrefs = <<>>
    /\ LET current_url == Head(se_urls_to_scrape) IN
        IF current_url \in se_visited_urls
        THEN /\ se_urls_to_scrape' = Tail(se_urls_to_scrape)
             /\ UNCHANGED <<se_pc, se_scraped_pages, se_visited_urls, se_task, se_fetched,
                            se_round>>
        ELSE /\ se_visited_urls' = se_visited_urls \cup {current_url}
             /\ se_fetched' = Append(se_fetched, current_url)
             /\ IF o # "ok"
                THEN /\ se_task' = SeFailed
                     /\ se_pc' = "done"
                     /\ se_urls_to_scrape' = Tail(se_urls_to_scrape)
                     /\ UNCHANGED <<se_scraped_pages, se_round>>
                ELSE SePage(current_url,
                            SeAnchors(current_url, hrefs, <<>>, Tail(se_urls_to_scrape)))
    /\ UNCHANGED <<notSe, seArgs>>

\* the loop is over: the task record gets the result
SeComplete ==
    /\ se_pc = "loop"
    /\ ~(se_urls_to_scrape # <<>> /\ Len(se_scraped_pages) < se_max_pages)
    /\ se_task' = [status |-> "completed", pages |-> se_scraped_pages]
    /\ se_pc' = "done"
    /\ UNCHANGED <<notSe, seArgs, se_scraped_pages, se_urls_to_scrape, se_visited_urls,
                   se_fetched, se_round>>

SeIdle ==
    /\ se_url = "" /\ se_depth = 0 /\ se_max_pages = 0
    /\ se_pc = "idle" /\ se_scraped_pages = <<>> /\ se_urls_to_scrape = <<>>
    /\ se_visited_urls = {} /\ se_task = [status |-> "none", pages |-> <<>>]
    /\ se_fetched = <<>> /\ se_round = <<>>

-----------------------------------------------------------------------------
(* EnhancedWebScraper._calculate_quality_score(content, html_length). The   *)
(* score is kept in hundredths (0.2 is 20, 0.05 is 5, 1.0 is 100), so that   *)
(* the sums are exact; content holds the lengths the function reads:         *)
(* len(content['title']) (0 for None or ''), len(content['main_content']),   *)
(* len(content['headings']) and len(content['paragraphs']).                  *)

\* the contents and HTML lengths the function is applied to: each threshold
\* of the function from below, at, and from above
QsContents ==
    [title |-> {0, 10, 11}, main_content |-> {0, 100, 101, 200, 201, 500, 501},
     headings |-> {0, 1}, paragraphs |-> {0, 1, 3, 4}]

QsHtmlLengths == {0, 1000, 2000, 4000, 10000}

\* the score before the cap: the sum of the "score +=" lines (in the variant
\* the tests of the content length are three ifs, not an if-elif chain)
QsSumOfAllTiers(content, html_length) ==
      (IF content.title > 10 THEN 20 ELSE 0)
    + (IF content.main_content > 500 THEN 30 ELSE 0)
    + (IF content.main_content > 200 THEN 20 ELSE 0)
    + (IF content.main_content > 100 THEN 10 ELSE 0)
    + (IF content.headings > 0 THEN 20 ELSE 0)
    + (IF content.paragraphs > 0 THEN 20 ELSE 0)
    + (IF content.paragraphs > 3 THEN 10 ELSE 0)
    + (IF html_length > 0
       THEN (IF 10 * content.main_content > html_length THEN 10
             ELSE IF 20 * content.main_content > html_length THEN 5 ELSE 0)
       ELSE 0)

QsSum(content, html_length) ==
      (IF content.title > 10 THEN 20 ELSE 0)
    + (IF content.main_content > 500 THEN 30
       ELSE IF content.main_content > 200 THEN 20
       ELSE IF content.main_content > 100 THEN 10 ELSE 0)
    + (IF content.headings > 0 THEN 20 ELSE 0)
    + (IF content.paragraphs > 0 THEN 20 ELSE 0)
    + (IF content.paragraphs > 3 THEN 10 ELSE 0)
    + (IF html_length > 0
       THEN (IF 10 * content.main_content > html_length THEN 10
             ELSE IF 20 * content.main_content > html_length THEN 5 ELSE 0)
       ELSE 0)

\* min(1.0, score)
MinUncapped(cap, score) == score

Min(cap, score) == IF cap < score THEN cap ELSE score

calculate_quality_score(content, html_length) == Min(100, QsSum(content, html_length))

QsIdle ==
    /\ qs_content = [title |-> 0, main_content |-> 0, headings |-> 0, paragraphs |-> 0]
    /\ qs_html_length = 0 /\ qs_score = 0 /\ qs_pc = "idle"

QsScore ==
    /\ qs_pc = "input"
    /\ qs_score' = calculate_quality_score(qs_content, qs_html_length)
    /\ qs_pc' = "scored"
    /\ UNCHANGED <<notQs, qs_content, qs_html_length>>

-----------------------------------------------------------------------------
(* ContentExtractor (enhanced_scraper.py) on one parsed document, in the     *)
(* order in which scrape_url calls it: extract_main_content(soup), then      *)
(* extract_structured_data(soup) on the same tree. A document is the sequence *)
(* of its elements in document order; an element has its tag, the text       *)
(* get_text() (or .string, for a script) gives, and "within": the script,    *)
(* style, nav, footer or header element that encloses it ("" for none). The  *)
(* script elements of the model are of type application/ld+json. The         *)
(* documents hold no ul, ol, table, main or article element and no element   *)
(* of the classes and ids of main_selectors, and their texts are ASCII with  *)
(* the space as the only whitespace.                                          *)

\* re.sub(r'\s+', ' ', ...)
RECURSIVE CollapseSpaces(_)
CollapseSpaces(s) ==
    IF Len(s) < 2 THEN s
    ELSE IF Char(s, 1) = " " /\ Char(s, 2) = " " THEN CollapseSpaces(Tail(s))
    ELSE Char(s, 1) \o CollapseSpaces(Tail(s))

\* \w and \d of the regular expressions
IsDigit(c) == Find(DigitChars, c) > 0
IsWordChar(c) == IsAlpha(c) \/ IsDigit(c) \/ c = "_"

\* re.match(pattern, text, re.IGNORECASE) for some pattern of skip_patterns,
\* on the lower-cased text l (stripped, its whitespace collapsed)
SkipPattern(l) ==
    \/ \E p \in {"skip to", "jump to", "go to"} :
           /\ StartsWith(l, p \o " ") /\ Len(l) > Len(p) + 1
           /\ IsWordChar(Char(l, Len(p) + 2))
    \/ l \in {"home", "about", "contact", "privacy", "terms"}
    \/ /\ StartsWith(l, "copyright")
       /\ Len(LStrip(From(l, 10), " ")) >= 4
       /\ \A k \in 1..4 : IsDigit(Char(LStrip(From(l, 10), " "), k))
    \/ StartsWith(l, "follow us") \/ StartsWith(l, "connect with us")

CleanCollapsed(text) == IF SkipPattern(Lower(text)) THEN "" ELSE text

\* ContentExtractor.clean_text
clean_text(text) == IF text = "" THEN "" ELSE CleanCollapsed(CollapseSpaces(Strip(text)))

\* len(text.split()) of a cleaned text
RECURSIVE Spaces(_)
Spaces(s) == IF s = "" THEN 0 ELSE (IF Char(s, 1) = " " THEN 1 ELSE 0) + Spaces(Tail(s))

Words(text) == IF text = "" THEN 0 ELSE Spaces(text) + 1

\* the texts of the <title>, <h1> and <p> elements of the documents
TitleTexts == {"Page Title", "Home"}
HeadingTexts == {"Site Name"}
ParagraphTexts ==
    {"Short text here",
     "This paragraph of text has got nine words in.",
     "Supercalifragilistic expialidocious words now",
     "One two three four five six sev",
     "One two three four five six se",
     "Follow us on social media for the latest news",
     "  One   two   three   four   five   six  "}

\* the bodies of the JSON-LD scripts, and json.loads of each: the value, or
\* the JSONDecodeError
JsonBodies == {"{}", "[1]", "{"}

JsonLoads ==
    [body \in JsonBodies |->
        CASE body = "{}" -> [ok |-> TRUE, value |-> "dict()"]
          [] body = "[1]" -> [ok |-> TRUE, value |-> "list(1)"]
          [] OTHER -> [ok |-> FALSE, value |-> ""]]

\* clean_text and the word count on the texts of the documents, evaluated once
CleanText == [text \in TitleTexts \cup HeadingTexts \cup ParagraphTexts |-> clean_text(text)]

WordCount == [text \in {CleanText[t] : t \in DOMAIN CleanText} |-> Words(text)]

Element(tag, text, within) == [tag |-> tag, text |-> text, within |-> within]

\* <a href=...> inside the element `within` ("" for none of the removed ones)
Anchor(href, within) == [tag |-> "a", text |-> "", within |-> within, href |-> href]

\* the href attributes of the anchors of a page: paths, a fragment, an empty
\* one, a link to another host and one without a host
ExHrefs == {"/x", "/x/", "#top", "", "http://other.org/y", "mailto:a"}

ExAnchors ==
    {Anchor(href, "") : href \in ExHrefs} \cup {Anchor("/x", "nav")}

\* normalized_url of scrape_url, the base_url of extract_links
ExBaseUrl == "https://example.com/p"

ExElements ==
    {Element("title", text, "") : text \in TitleTexts}
    \cup {Element("h1", text, within) : text \in HeadingTexts, within \in {"", "header"}}
    \cup {Element("p", text, within) : text \in ParagraphTexts, within \in {"", "footer"}}
    \cup {Element("script", body, "") : body \in JsonBodies}
    \cup ExAnchors

ExDocuments == UNION {[1..n -> ExElements] : n \in 1..MaxElements}

\* soup(['script', 'style', 'nav', 'footer', 'header']): the elements that
\* element.decompose() takes out of the tree, with all they enclose
Removed == {"script", "style", "nav", "footer", "header"}

Decomposed(element) == element.tag \in Removed \/ element.within \in Removed

Remains(element) == ~Decomposed(element)

\* soup.find_all(tag), and the clean text of soup.find(tag) ("" without one)
FindAll(soup, tag) == SelectSeq(soup, LAMBDA element : element.tag = tag)

CleanFirst(found) == IF found = <<>> THEN "" ELSE CleanText[found[1].text]

\* content['title']: the <title>, or else the first <h1>
OrFirstH1(title, soup) == IF title = "" THEN CleanFirst(FindAll(soup, "h1")) ELSE title

Title(soup) == OrFirstH1(CleanFirst(FindAll(soup, "title")), soup)

\* "At least 2 words"
HeadingKept(element) ==
    CleanText[element.text] # "" /\ WordCount[CleanText[element.text]] >= 2

Headings(found) ==
    [k \in 1..Len(found) |-> [level |-> 1, text |-> CleanText[found[k].text], tag |-> "h1"]]

\* "Quality filter"
ParagraphKeptByLength(element) ==
    CleanText[element.text] # "" /\ Len(CleanText[element.text]) > 30

ParagraphKept(element) ==
    /\ CleanText[element.text] # "" /\ Len(CleanText[element.text]) > 30
    /\ WordCount[CleanText[element.text]] >= 5

Paragraphs(found) == [k \in 1..Len(found) |-> CleanText[found[k].text]]

\* ' '.join(paragraphs)
RECURSIVE Join(_)
Join(paragraphs) ==
    IF paragraphs = <<>> THEN ""
    ELSE IF Len(paragraphs) = 1 THEN paragraphs[1]
    ELSE paragraphs[1] \o " " \o Join(Tail(paragraphs))

\* the content dict, from the title and the tree the removal has left
ContentOf(title, headings, paragraphs) ==
    [title |-> title, headings |-> headings, paragraphs |-> paragraphs,
     main_content |-> Join(FirstN(paragraphs, 5))]

Content(title, soup) ==
    ContentOf(title,
              Headings(SelectSeq(FindAll(soup, "h1"), HeadingKept)),
              Paragraphs(SelectSeq(FindAll(soup, "p"), ParagraphKept)))

NoContent == [title |-> "", headings |-> <<>>, paragraphs |-> <<>>, main_content |-> ""]

\* extract_structured_data: structured_data['json_ld'], <<>> for no such key
ParsesAsJson(script) == JsonLoads[script.text].ok

JsonLd(found) == [k \in 1..Len(found) |-> JsonLoads[found[k].text].value]

extract_structured_data(soup) == JsonLd(SelectSeq(FindAll(soup, "script"), ParsesAsJson))

\* urljoin(base_url, href) for an href with a scheme or an absolute path
FullUrl(base_url, href) ==
    IF urlparse(href).scheme # "" THEN href ELSE urljoin(base_url, href)

LinkUrl == [href \in ExHrefs |-> normalize_url(FullUrl(ExBaseUrl, Strip(href)))]

\* "Determine link type"
LinkType(full_url, base_url) ==
    IF urlparse(full_url).netloc = urlparse(base_url).netloc THEN "internal"
    ELSE IF urlparse(full_url).netloc = "" THEN "relative"
    ELSE "external"

Link(full_url, base_url) == [url |-> full_url, type |-> LinkType(full_url, base_url)]

\* the loop over soup.find_all('a', href=True), with links and seen_urls
RECURSIVE LinksOf(_, _, _, _)
LinkOfUrl(anchors, base_url, links, seen_urls, full_url) ==
    IF full_url \in seen_urls THEN LinksOf(Tail(anchors), base_url, links, seen_urls)
    ELSE LinksOf(Tail(anchors), base_url, Append(links, Link(full_url, base_url)),
                 seen_urls \cup {full_url})

LinkOfHref(anchors, base_url, links, seen_urls, href) ==
    IF href = "" \/ StartsWith(href, "#")
    THEN LinksOf(Tail(anchors), base_url, links, seen_urls)
    ELSE LinkOfUrl(anchors, base_url, links, seen_urls, LinkUrl[href])

LinksOf(anchors, base_url, links, seen_urls) ==
    IF anchors = <<>> THEN links
    ELSE LinkOfHref(anchors, base_url, links, seen_urls, Strip(Head(anchors).href))

extract_links(soup, base_url) == LinksOf(FindAll(soup, "a"), base_url, <<>>, {})

\* content = self.content_extractor.extract_main_content(soup): the title is
\* read first, then the elements are removed from soup, then the rest is read
ExMainContent ==
    /\ ex_pc = "parsed"
    /\ ex_content' = Content(Title(ex_soup), SelectSeq(ex_soup, Remains))
    /\ ex_soup' = SelectSeq(ex_soup, Remains)
    /\ ex_pc' = "content"
    /\ UNCHANGED <<notEx, ex_html, ex_links, ex_structured>>

\* links = self.content_extractor.extract_links(soup, normalized_url)
ExLinks ==
    /\ ex_pc = "content"
    /\ ex_links' = extract_links(ex_soup, ExBaseUrl)
    /\ ex_pc' = "links"
    /\ UNCHANGED <<notEx, ex_html, ex_soup, ex_content, ex_structured>>

\* structured_data = self.content_extractor.extract_structured_data(soup)
ExStructuredData ==
    /\ ex_pc = "links"
    /\ ex_structured' = extract_structured_data(ex_soup)
    /\ ex_pc' = "done"
    /\ UNCHANGED <<notEx, ex_html, ex_soup, ex_content, ex_links>>

ExIdle ==
    /\ ex_html = <<>> /\ ex_soup = <<>> /\ ex_pc = "idle"
    /\ ex_content = NoContent /\ ex_links = <<>> /\ ex_structured = <<>>

-----------------------------------------------------------------------------
(* ConnectionPool (src/src/services/batch_service.py): client tasks of one   *)
(* event loop call get_connection, and return_connection with the connection *)
(* they got. cp_pc[c] is the position of client c: "idle" (holds nothing),   *)
(* "get" (at `async with self.lock` of get_connection), "waiting" (at the    *)
(* test of the while loop, holding the lock), "sleep" (inside                *)
(* asyncio.sleep(0.1), holding the lock), "has" (holds cp_conn[c]), "return" *)
(* (at `async with self.lock` of return_connection). cp_lock is the client   *)
(* that holds self.lock, 0 for none. A connection is the number in its id.   *)
(* _create_connection and _close_connection never suspend, so a body that    *)
(* does not reach the while loop runs without interruption.                  *)

Clients == 1..MaxClients

\* a client calls get_connection and reaches `async with self.lock`
CpCallGet(c) ==
    /\ cp_pc[c] = "idle"
    /\ cp_pc' = [cp_pc EXCEPT ![c] = "get"]
    /\ UNCHANGED <<notCp, cp_max_connections, cp_connections, cp_active_connections,
                   cp_lock, cp_conn>>

\* return self.connections.popleft(), leaving `async with self.lock`
CpPopLeft(c) ==
    /\ cp_conn' = [cp_conn EXCEPT ![c] = Head(cp_connections)]
    /\ cp_connections' = Tail(cp_connections)
    /\ cp_pc' = [cp_pc EXCEPT ![c] = "has"]
    /\ cp_lock' = 0
    /\ UNCHANGED <<cp_max_connections, cp_active_connections>>

\* the lock is taken and the body of get_connection runs up to its return or
\* to the while loop, which it enters with the lock held
CpGetConnection(c) ==
    /\ cp_pc[c] = "get" /\ cp_lock = 0
    /\ IF cp_connections # <<>> THEN CpPopLeft(c)
       ELSE IF cp_active_connections < cp_max_connections
       THEN /\ cp_active_connections' = cp_active_connections + 1
            /\ cp_conn' = [cp_conn EXCEPT ![c] = cp_active_connections + 1]
            /\ cp_pc' = [cp_pc EXCEPT ![c] = "has"]
            /\ UNCHANGED <<cp_max_connections, cp_connections, cp_lock>>
       ELSE /\ cp_lock' = c
            /\ cp_pc' = [cp_pc EXCEPT ![c] = "waiting"]
            /\ UNCHANGED <<cp_max_connections, cp_connections, cp_active_connections,
                           cp_conn>>
    /\ UNCHANGED notCp

\* while not self.connections: await asyncio.sleep(0.1)
CpWhile(c) ==
    /\ cp_pc[c] = "waiting"
    /\ IF cp_connections # <<>> THEN CpPopLeft(c)
       ELSE /\ cp_pc' = [cp_pc EXCEPT ![c] = "sleep"]
            /\ UNCHANGED <<cp_max_connections, cp_connections, cp_active_connections,
                           cp_lock, cp_conn>>
    /\ UNCHANGED notCp

\* asyncio.sleep(0.1) is over
CpWake(c) ==
    /\ cp_pc[c] = "sleep"
    /\ cp_pc' = [cp_pc EXCEPT ![c] = "waiting"]
    /\ UNCHANGED <<notCp, cp_max_connections, cp_connections, cp_active_connections,
                   cp_lock, cp_conn>>

\* a client calls return_connection(connection) and reaches `async with self.lock`
CpCallReturn(c) ==
    /\ cp_pc[c] = "has"
    /\ cp_pc' = [cp_pc EXCEPT ![c] = "return"]
    /\ UNCHANGED <<notCp, cp_max_connections, cp_connections, cp_active_connections,
                   cp_lock, cp_conn>>

\* the lock is taken and the body of return_connection runs
CpReturnConnection(c) ==
    /\ cp_pc[c] = "return" /\ cp_lock = 0
    /\ IF Len(cp_connections) < cp_max_connections
       THEN /\ cp_connections' = Append(cp_connections, cp_conn[c])
            /\ UNCHANGED cp_active_connections
       ELSE /\ cp_active_connections' = cp_active_connections - 1
            /\ UNCHANGED cp_connections
    /\ cp_conn' = [cp_conn EXCEPT ![c] = 0]
    /\ cp_pc' = [cp_pc EXCEPT ![c] = "idle"]
    /\ UNCHANGED <<notCp, cp_max_connections, cp_lock>>

CpIdle ==
    /\ cp_max_connections = 0 /\ cp_connections = <<>> /\ cp_active_connections = 0
    /\ cp_lock = 0 /\ cp_pc = <<>> /\ cp_conn = <<>>

-----------------------------------------------------------------------------
(* RequestBatcher (src/src/services/batch_service.py): tasks of one event    *)
(* loop call add_request. rb_future[r] is "none" before request r is added,  *)
(* "pending" while add_request awaits its future, then "result" or           *)
(* "exception". rb_scheduled counts the _schedule_processing tasks inside    *)
(* asyncio.sleep(batch_timeout), rb_batch holds the requests of the batch    *)
(* being processed whose task _process_batch has still to await.             *)

Requests == 1..MaxRequests

\* how `result = await task` can end
RbOutcomes == {"result", "exception"}

\* _process_batch up to its first `await task`; a call that finds processing
\* set returns at once
RbProcessBatch(pending_requests) ==
    IF rb_processing
    THEN /\ rb_pending_requests' = pending_requests
         /\ UNCHANGED <<rb_processing, rb_batch>>
    ELSE /\ rb_processing' = TRUE
         /\ rb_batch' = pending_requests
         /\ rb_pending_requests' = <<>>

\* add_request up to `return await future`
RbAddTo(pending_requests) ==
    IF Len(pending_requests) >= rb_batch_size
    THEN RbProcessBatch(pending_requests) /\ UNCHANGED rb_scheduled
    ELSE IF ~rb_processing
    THEN /\ rb_scheduled' = rb_scheduled + 1
         /\ rb_pending_requests' = pending_requests
         /\ UNCHANGED <<rb_processing, rb_batch>>
    ELSE /\ rb_pending_requests' = pending_requests
         /\ UNCHANGED <<rb_scheduled, rb_processing, rb_batch>>

add_request(r) ==
    /\ rb_future[r] = "none"
    /\ rb_future' = [rb_future EXCEPT ![r] = "pending"]
    /\ RbAddTo(Append(rb_pending_requests, r))
    /\ UNCHANGED <<notRb, rb_batch_size>>

\* _schedule_processing after asyncio.sleep(self.batch_timeout)
RbScheduleProcessing ==
    /\ rb_scheduled > 0
    /\ rb_scheduled' = rb_scheduled - 1
    /\ IF rb_pending_requests # <<>> /\ ~rb_processing
       THEN RbProcessBatch(rb_pending_requests)
       ELSE UNCHANGED <<rb_pending_requests, rb_processing, rb_batch>>
    /\ UNCHANGED <<notRb, rb_batch_size, rb_future>>

\* `result = await task` is over for the next request of the batch: its
\* future is resolved, and after the last one the finally block runs
RbAwaited(outcome) ==
    /\ rb_processing /\ rb_batch # <<>>
    /\ rb_future' = [rb_future EXCEPT ![Head(rb_batch)] = outcome]
    /\ rb_batch' = Tail(rb_batch)
    /\ rb_processing' = (Tail(rb_batch) # <<>>)
    /\ UNCHANGED <<notRb, rb_batch_size, rb_pending_requests, rb_scheduled>>

RbIdle ==
    /\ rb_batch_size = 0 /\ rb_pending_requests = <<>> /\ rb_processing = FALSE
    /\ rb_batch = <<>> /\ rb_scheduled = 0 /\ rb_future = <<>>

-----------------------------------------------------------------------------
(* The test API (test_api.py): POST /scrape and POST /scrape-enhanced start  *)
(* a background task (asyncio.create_task) and return; GET /task/{task_id}   *)
(* and GET /result/{task_id} read the module's dicts task_status and         *)
(* scraping_results. api_runs[r] is the r-th background task: "created"      *)
(* (not yet run), "crawl" (awaiting its crawl), "done". A handler has no     *)
(* await, and run_*_task has the single await of its crawl. The result of    *)
(* run r is written r; 0 stands for no result.                               *)

\* the ids generate_task_id can return: it formats time.time(), so that two
\* POSTs within one tick of the clock get the same id
TaskIds == {"task_1", "task_2"}

Endpoints == {"scrape", "scrape_enhanced"}

\* how the crawl of a task ends: it returns a result, it returns a dict with
\* "error" (scrape_url only), or it raises
ApiOutcomes == {"returned", "error", "raised"}

\* d[key] = value
Put(d, key, value) == [k \in DOMAIN d \cup {key} |-> IF k = key THEN value ELSE d[k]]

\* an entry of task_status
Task(status, progress, res, error) ==
    [status |-> status, progress |-> progress, result |-> res, error |-> error]

\* the answer of a handler: its status code (404 and 400 are HTTPExceptions)
\* and the fields of its body
Answer(code, task_id, status, res) ==
    [code |-> code, task_id |-> task_id, status |-> status, result |-> res]

\* POST /scrape and POST /scrape-enhanced
start_scraping(task_id, endpoint) ==
    /\ Len(api_runs) < MaxPosts
    /\ task_id \in TaskIds /\ endpoint \in Endpoints
    /\ task_status' = Put(task_status, task_id, Task("pending", 0, 0, ""))
    /\ api_runs' = Append(api_runs, [task_id |-> task_id, endpoint |-> endpoint,
                                     pc |-> "created"])
    /\ api_response' = Answer(200, task_id, "started", 0)
    /\ UNCHANGED <<notApi, scraping_results>>

\* run_scraping_task / run_enhanced_scraping_task up to the await of the crawl
RunStart(r) ==
    /\ r \in 1..Len(api_runs) /\ api_runs[r].pc = "created"
    /\ task_status' = [task_status EXCEPT ![api_runs[r].task_id] =
                           Task("processing", 10, @.result, @.error)]
    /\ api_runs' = [api_runs EXCEPT ![r].pc = "crawl"]
    /\ UNCHANGED <<notApi, scraping_results, api_response>>

\* scraping_results[task_id] = result
StoreResultNot(results, task_id, res) == results

StoreResult(results, task_id, res) == Put(results, task_id, res)

\* task_status[task_id].update({"status": "failed", ...})
TaskFailedNot(task, error) == task

TaskFailed(task, error) == Task("failed", 0, task.result, error)

\* run_scraping_task / run_enhanced_scraping_task from the return of the crawl
RunEnd(r, o) ==
    /\ r \in 1..Len(api_runs) /\ api_runs[r].pc = "crawl"
    /\ o \in ApiOutcomes
    /\ o = "error" => api_runs[r].endpoint = "scrape_enhanced"
    /\ IF o = "returned"
       THEN /\ scraping_results' = StoreResult(scraping_results, api_runs[r].task_id, r)
            /\ task_status' = [task_status EXCEPT ![api_runs[r].task_id] =
                                   Task("completed", 100, r, @.error)]
       ELSE /\ task_status' = [task_status EXCEPT ![api_runs[r].task_id] =
                                   TaskFailed(@, o)]
            /\ UNCHANGED scraping_results
    /\ api_runs' = [api_runs EXCEPT ![r].pc = "done"]
    /\ UNCHANGED <<notApi, api_response>>

\* GET /task/{task_id}
get_task_status_unchecked(task_id) ==
    IF task_id \notin DOMAIN task_status THEN Answer(200, task_id, "pending", 0)
    ELSE Answer(200, task_id, task_status[task_id].status, task_status[task_id].result)

get_task_status(task_id) ==
    IF task_id \notin DOMAIN task_status THEN Answer(404, "", "", 0)
    ELSE Answer(200, task_id, task_status[task_id].status, task_status[task_id].result)

\* GET /result/{task_id}
get_scraping_result_unchecked(task_id) ==
    IF task_id \notin DOMAIN task_status THEN Answer(404, "", "", 0)
    ELSE IF task_id \notin DOMAIN scraping_results THEN Answer(404, "", "", 0)
    ELSE Answer(200, "", "", scraping_results[task_id])

get_scraping_result(task_id) ==
    IF task_id \notin DOMAIN task_status THEN Answer(404, "", "", 0)
    ELSE IF task_status[task_id].status # "completed" THEN Answer(400, "", "", 0)
    ELSE IF task_id \notin DOMAIN scraping_results THEN Answer(404, "", "", 0)
    ELSE Answer(200, "", "", scraping_results[task_id])

GetTask(task_id) ==
    /\ task_id \in TaskIds
    /\ api_response' = get_task_status(task_id)
    /\ UNCHANGED <<notApi, task_status, scraping_results, api_runs>>

GetResult(task_id) ==
    /\ task_id \in TaskIds
    /\ api_response' = get_scraping_result(task_id)
    /\ UNCHANGED <<notApi, task_status, scraping_results, api_runs>>

ApiIdle ==
    /\ task_status = <<>> /\ scraping_results = <<>> /\ api_runs = <<>>
    /\ api_response = Answer(0, "", "", 0)

UrlLists == UNION {[1..n -> BatchUrls] : n \in 1..MaxUrls}

ScIdle ==
    /\ urls = <<>> /\ max_retries = 0 /\ max_concurrent = 0
    /\ visited_urls = {} /\ semaphore = 0 /\ pc = <<>> /\ retry_count = <<>>
    /\ result = <<>> /\ processed_results = <<>>
    /\ attempts = <<>> /\ requested = <<>> /\ outcomes = <<>>

Init ==
    /\ NzIdle /\ SwIdle /\ SeIdle /\ QsIdle /\ ApiIdle /\ ExIdle /\ CpIdle /\ RbIdle
    /\ urls \in UrlLists
    /\ max_retries \in 0..MaxRetries
    /\ max_concurrent \in 1..MaxConcurrent
    /\ visited_urls = {}
    /\ semaphore = max_concurrent
    /\ pc = [i \in Tasks |-> "pending"]
    /\ retry_count = [i \in Tasks |-> 0]
    /\ result = [i \in Tasks |-> NoResult]
    /\ processed_results = <<>>
    /\ attempts = [i \in Tasks |-> 0]
    /\ requested = [i \in Tasks |-> ""]
    /\ outcomes = [i \in Tasks |-> {}]

Next ==
    \/ \E i \in Tasks : Acquire(i)
    \/ \E i \in {t \in Tasks : pc[t] = "get"}, o \in Outcomes, status \in StatusCodes,
          final \in RedirectUrls :
            Response(i, o, status, final)
    \/ \E i \in Tasks : Retry(i)
    \/ \E i \in Tasks : DelayDone(i)
    \/ Gather

Spec == Init /\ [][Next]_vars

InitNormalize ==
    /\ nz_url \in NzUrls /\ nz_once = "" /\ nz_twice = "" /\ nz_pc = "input"
    /\ ScIdle /\ SwIdle /\ SeIdle /\ QsIdle /\ ApiIdle /\ ExIdle /\ CpIdle /\ RbIdle

NextNormalize == NzNormalize \/ NzNormalizeAgain

SpecNormalize == InitNormalize /\ [][NextNormalize]_vars

InitWebsite ==
    /\ NzIdle /\ ScIdle /\ SeIdle /\ QsIdle /\ ApiIdle /\ ExIdle /\ CpIdle /\ RbIdle
    /\ sw_fn \in SwFunctions
    /\ sw_url \in SwSeeds
    /\ sw_depth \in 1..MaxDepth
    /\ sw_max_pages \in 1..MaxPages
    /\ sw_include_images \in BOOLEAN
    /\ sw_fn = "scrape_website" => ~sw_include_images
    /\ sw_pc = "loop"
    /\ sw_current_depth = 0
    /\ sw_scraped_pages = <<>>
    /\ sw_visited_urls = {}
    /\ sw_urls_to_visit = <<sw_url>>
    /\ sw_tasks = <<>>
    /\ sw_results = <<>>
    /\ sw_dispatched = <<>>
    /\ sw_rounds = <<>>
    /\ sw_completed = <<>>

NextWebsite ==
    \/ SwRound
    \/ \E k \in 1..Len(sw_tasks), status \in SwStatusCodes, links \in SwLinkLists,
          raised \in BOOLEAN : SwPageDone(k, status, links, raised)
    \/ SwCollect

SpecWebsite == InitWebsite /\ [][NextWebsite]_vars

\* every fetch returns and the event loop goes on running the job
SpecWebsiteLive == SpecWebsite /\ WF_vars(NextWebsite)

InitEnhanced ==
    /\ NzIdle /\ ScIdle /\ SwIdle /\ QsIdle /\ ApiIdle /\ ExIdle /\ CpIdle /\ RbIdle
    /\ se_url \in SeSeeds
    /\ se_depth \in 1..MaxDepth
    /\ se_max_pages \in 1..MaxPages
    /\ se_pc = "loop"
    /\ se_scraped_pages = <<>>
    /\ se_urls_to_scrape = <<se_url>>
    /\ se_visited_urls = {}
    /\ se_task = [status |-> "processing", pages |-> <<>>]
    /\ se_fetched = <<>>
    /\ se_round = [u \in {se_url} |-> 0]

NextEnhanced ==
    \/ \E o \in SeOutcomes, hrefs \in SeLinkLists : SeIteration(o, hrefs)
    \/ SeComplete

SpecEnhanced == InitEnhanced /\ [][NextEnhanced]_vars

\* every urlopen returns or raises
SpecEnhancedLive == SpecEnhanced /\ WF_vars(NextEnhanced)

InitQuality ==
    /\ NzIdle /\ ScIdle /\ SwIdle /\ SeIdle /\ ApiIdle /\ ExIdle /\ CpIdle /\ RbIdle
    /\ qs_content \in [title : QsContents.title, main_content : QsContents.main_content,
                        headings : QsContents.headings, paragraphs : QsContents.paragraphs]
    /\ qs_html_length \in QsHtmlLengths
    /\ qs_score = 0 /\ qs_pc = "input"

NextQuality == QsScore

SpecQuality == InitQuality /\ [][NextQuality]_vars

InitApi ==
    /\ NzIdle /\ ScIdle /\ SwIdle /\ SeIdle /\ QsIdle /\ ExIdle /\ CpIdle /\ RbIdle
    /\ ApiIdle

NextApi ==
    \/ \E task_id \in TaskIds, endpoint \in Endpoints : start_scraping(task_id, endpoint)
    \/ \E r \in 1..Len(api_runs) : RunStart(r)
    \/ \E r \in 1..Len(api_runs), o \in ApiOutcomes : RunEnd(r, o)
    \/ \E task_id \in TaskIds : GetTask(task_id)
    \/ \E task_id \in TaskIds : GetResult(task_id)

SpecApi == InitApi /\ [][NextApi]_vars

\* the event loop runs every task it created, and every crawl returns or raises
SpecApiLive ==
    /\ SpecApi
    /\ WF_vars(\E r \in 1..Len(api_runs) : RunStart(r))
    /\ WF_vars(\E r \in 1..Len(api_runs), o \in ApiOutcomes : RunEnd(r, o))

InitExtract ==
    /\ NzIdle /\ ScIdle /\ SwIdle /\ SeIdle /\ QsIdle /\ ApiIdle /\ CpIdle /\ RbIdle
    /\ ex_html \in ExDocuments
    /\ ex_soup = ex_html
    /\ ex_pc = "parsed"
    /\ ex_content = NoContent
    /\ ex_links = <<>>
    /\ ex_structured = <<>>

NextExtract == ExMainContent \/ ExLinks \/ ExStructuredData

SpecExtract == InitExtract /\ [][NextExtract]_vars

InitPool ==
    /\ NzIdle /\ ScIdle /\ SwIdle /\ SeIdle /\ QsIdle /\ ApiIdle /\ ExIdle /\ RbIdle
    /\ cp_max_connections \in 1..MaxConnections
    /\ cp_connections = <<>>
    /\ cp_active_connections = 0
    /\ cp_lock = 0
    /\ cp_pc = [c \in Clients |-> "idle"]
    /\ cp_conn = [c \in Clients |-> 0]

NextPool ==
    \E c \in Clients :
        \/ CpCallGet(c)
        \/ CpGetConnection(c)
        \/ CpWhile(c)
        \/ CpWake(c)
        \/ CpCallReturn(c)
        \/ CpReturnConnection(c)

SpecPool == InitPool /\ [][NextPool]_vars

\* the event loop runs every task that can run, and a client that holds a
\* connection calls return_connection; nothing makes a client call
\* get_connection
SpecPoolLive ==
    /\ SpecPool
    /\ \A c \in Clients :
           /\ WF_vars(CpGetConnection(c))
           /\ WF_vars(CpWhile(c))
           /\ WF_vars(CpWake(c))
           /\ WF_vars(CpCallReturn(c))
           /\ WF_vars(CpReturnConnection(c))

InitBatcher ==
    /\ NzIdle /\ ScIdle /\ SwIdle /\ SeIdle /\ QsIdle /\ ApiIdle /\ ExIdle /\ CpIdle
    /\ rb_batch_size \in 1..MaxBatchSize
    /\ rb_pending_requests = <<>>
    /\ rb_processing = FALSE
    /\ rb_batch = <<>>
    /\ rb_scheduled = 0
    /\ rb_future = [r \in Requests |-> "none"]

NextBatcher ==
    \/ \E r \in Requests : add_request(r)
    \/ RbScheduleProcessing
    \/ \E outcome \in RbOutcomes : RbAwaited(outcome)

SpecBatcher == InitBatcher /\ [][NextBatcher]_vars

\* every sleep ends and every request task ends; nothing makes a task call
\* add_request
SpecBatcherLive ==
    /\ SpecBatcher
    /\ WF_vars(RbScheduleProcessing)
    /\ WF_vars(\E outcome \in RbOutcomes : RbAwaited(outcome))

-----------------------------------------------------------------------------
(* Claims about scrape_url and scrape_multiple_urls, under Spec *)

\* task i is back from scrape_url
Back(i) == pc[i] \in {"delay", "done"}

\* the tasks inside scrape_url: awaiting the GET or sleeping before a retry
InFlight == {i \in Tasks : pc[i] \in {"get", "sleep"}}

\* the tasks that hold a slot of the semaphore
Holding == {i \in Tasks : pc[i] \in {"get", "sleep", "delay"}}

\* C1: a URL whose every request times out produces exactly max_retries + 1
\* GETs and then a Failure whose error is "Timeout".
C1_TimeoutRetryBound ==
    \A i \in Tasks :
        (Back(i) /\ outcomes[i] = {[kind |-> "timeout", status |-> 0]})
            => (attempts[i] = max_retries + 1 /\ result[i].error = "Timeout")

\* the tasks whose URL has the canonical form of task i's URL
SameKey(i) == {j \in Tasks : Normalized[urls[j]] = Normalized[urls[i]]}

\* C4: of the concurrent scrape_url calls for one canonical form at most one
\* issues a network request, whatever the others' position (awaiting the GET,
\* sleeping before a retry); once one of them has entered scrape_url and the
\* canonical form is not excluded, exactly one has; and a call that awaits
\* its GET has already put the canonical form into the visited set.
C4_OneFetchPerCanonicalUrl ==
    \A i \in Tasks :
        LET fetchers == {j \in SameKey(i) : attempts[j] > 0} IN
            /\ Cardinality(fetchers) <= 1
            /\ ((\E j \in SameKey(i) : pc[j] # "pending")
                    /\ ~Excluded[Normalized[urls[i]]])
                   => Cardinality(fetchers) = 1
            /\ pc[i] \in {"get", "sleep"} => requested[i] \in visited_urls

\* two calls for different raw URLs of one canonical form: one sleeps before
\* its retry, the other came back without a request
C4_Witness ==
    \E i, j \in Tasks :
        /\ i # j /\ urls[i] # urls[j] /\ j \in SameKey(i)
        /\ pc[i] = "sleep" /\ attempts[i] = 1
        /\ Back(j) /\ attempts[j] = 0 /\ result[j].error = "Already visited"

\* C7: at most max_concurrent scrape_url calls are in flight, and the
\* semaphore counts the free slots.
C7_AtMostMaxConcurrentInFlight ==
    /\ Cardinality(InFlight) <= max_concurrent
    /\ Cardinality(Holding) <= max_concurrent
    /\ semaphore = max_concurrent - Cardinality(Holding)

\* every slot is taken by a call in flight while another task waits
C7_Witness ==
    /\ Cardinality(InFlight) = max_concurrent
    /\ \E i \in Tasks : pc[i] = "pending"

\* the raw forms of one page that differ in scheme, host letter case, a
\* leading www. label and a trailing slash
PageVariants ==
    {sch \o "://" \o w \o h \o "/a" \o t :
        sch \in {"http", "https"}, w \in {"", "www."},
        h \in {"example.com", "Example.com"}, t \in {"", "/"}}

\* the scheme urlparse finds in each URL of a batch
SchemeOf == [u \in BatchUrls |-> urlparse(u).scheme]

\* task j's call was skipped as already visited, without a request
SkippedAsVisited(j) ==
    pc[j] # "pending" => (attempts[j] = 0 /\ result[j].error = "Already visited")

\* C9 as stated: two raw URLs that differ only in scheme, host letter case, a
\* leading www. label and a trailing slash have the same canonical form, and
\* the fetch of the second is skipped as already visited.
C9_VariantsShareKey ==
    \A i, j \in Tasks :
        (i < j /\ urls[i] \in PageVariants /\ urls[j] \in PageVariants)
            => (Normalized[urls[i]] = Normalized[urls[j]] /\ SkippedAsVisited(j))

\* C9 as amended: two raw URLs of the same scheme that differ only in host
\* letter case, a leading www. label and a trailing slash have the same
\* canonical form, and the fetch of the second is skipped as already visited.
C9_SameSchemeVariantsShareKey ==
    \A i, j \in Tasks :
        (/\ i < j /\ urls[i] \in PageVariants /\ urls[j] \in PageVariants
         /\ SchemeOf[urls[i]] = SchemeOf[urls[j]])
            => (Normalized[urls[i]] = Normalized[urls[j]] /\ SkippedAsVisited(j))

C9_Witness ==
    \E i, j \in Tasks :
        /\ i < j /\ urls[i] = "https://Example.com/a/" /\ urls[j] = "https://www.example.com/a"
        /\ attempts[i] = 1
        /\ pc[j] = "done" /\ attempts[j] = 0 /\ result[j].error = "Already visited"

\* C10: a response whose status is not 200 yields a Failure with the status
\* code and the message of that status, after exactly one request.
C10_Non200IsFailureWithoutRetry ==
    \A i \in Tasks : \A r \in outcomes[i] :
        (Back(i) /\ r.kind = "response" /\ r.status # 200)
            => /\ result[i].status_code = r.status
               /\ r.status = 404 => result[i].error = "Page not found"
               /\ r.status = 403 => result[i].error = "Access forbidden"
               /\ r.status = 500 => result[i].error = "Server error"
               /\ r.status = 503 => result[i].error = "HTTP 503"
               /\ attempts[i] = 1 /\ retry_count[i] = 0
               /\ Cardinality(outcomes[i]) = 1

C10_Witness ==
    \E i, j \in Tasks :
        /\ pc[i] = "done" /\ result[i] = Result("Page not found", Normalized[urls[i]], 404)
        /\ pc[j] = "done" /\ result[j].error = "HTTP 503" /\ attempts[j] = 1

\* C15: no step of a job takes a URL out of its visited set: the set after a
\* step contains the set before it (in scrape_url's batch, in the rounds of
\* scrape_website, in the loop of scrape_enhanced).
C15_VisitedSetGrows ==
    [][/\ visited_urls \subseteq visited_urls'
       /\ sw_visited_urls \subseteq sw_visited_urls'
       /\ se_visited_urls \subseteq se_visited_urls']_vars

\* two URLs are visited; one task failed on a status, the other timed out,
\* retried and was told "Already visited"
C15_Witness ==
    /\ Cardinality(visited_urls) = 2
    /\ \E i, j \in Tasks :
           /\ pc[i] = "done" /\ result[i].error = "Server error"
           /\ pc[j] = "done" /\ result[j].error = "Already visited" /\ attempts[j] = 1

\* C16: a scrape_url call for a URL that is already visited or excluded
\* issues no request, and what it returns is no Failure: it has no error.
C16_SkipIsNotFailure ==
    \A i \in Tasks :
        (Back(i) /\ attempts[i] = 0) => result[i].error = ""

\* C17: an invalid URL is caught before the fetch: no session.get is issued
\* for it and its result is no Failure.
C17_InvalidUrlIsSkipped ==
    \A i \in Tasks :
        ~Valid[urls[i]] => (attempts[i] = 0 /\ (Back(i) => result[i].error = ""))

\* C27: the delay between requests is applied after a fetch completes and
\* before its slot is released: a call that leaves scrape_url goes into the
\* delay with the semaphore as it was; the semaphore is released only by a
\* task whose delay is over; and a waiting task starts only when fewer than
\* max_concurrent tasks are fetching, backing off or delaying.
C27_DelayBeforeRelease ==
    [][/\ \A i \in Tasks :
              /\ (pc[i] \in {"get", "sleep"} /\ pc'[i] \notin {"get", "sleep"}) =>
                     (pc'[i] = "delay" /\ semaphore' = semaphore)
              /\ (pc[i] = "pending" /\ pc'[i] # "pending") =>
                     Cardinality(Holding) < max_concurrent
       /\ semaphore' > semaphore =>
              \E i \in Tasks : pc[i] = "delay" /\ pc'[i] = "done"]_vars

\* with one slot, the first task has its response and is in its delay while
\* the second still waits for the semaphore
C27_Witness ==
    /\ max_concurrent = 1 /\ semaphore = 0 /\ Len(urls) = 2
    /\ pc[1] = "delay" /\ attempts[1] = 1 /\ result[1].status_code = 200
    /\ pc[2] = "pending"

\* the raw URLs, and the canonical forms, that an exclusion pattern matches
\* without regard to letter case
RawMatches ==
    [u \in BatchUrls |->
        \/ \E s \in ExcludeSuffixes : EndsWith(Lower(u), s)
        \/ \E s \in ExcludeSubstrings : Contains(Lower(u), s)]

KeyMatches ==
    [u \in BatchUrls |->
        \/ \E s \in ExcludeSuffixes : EndsWith(Lower(Normalized[u]), s)
        \/ \E s \in ExcludeSubstrings : Contains(Lower(Normalized[u]), s)]

\* the call of task i for a URL that is to be excluded: no request, the
\* canonical form not in the visited set, and the result the skip
SkippedAsExcluded(i) ==
    /\ attempts[i] = 0
    /\ Normalized[urls[i]] \notin visited_urls
    /\ pc[i] # "pending" => result[i].error = "URL excluded by pattern"

\* C28, as stated: no request is issued for a raw URL that an exclusion
\* pattern matches, and the URL is not added to the visited set.
C28_RawMatchIsNeverFetched ==
    \A i \in Tasks : RawMatches[urls[i]] => SkippedAsExcluded(i)

\* C28, amended: no request is issued for a URL whose canonical form an
\* exclusion pattern matches, and that form is not added to the visited set.
C28_KeyMatchIsNeverFetched ==
    \A i \in Tasks : KeyMatches[urls[i]] => SkippedAsExcluded(i)

\* the call for a URL whose path ends with .PDF came back as excluded, the
\* visited set being empty
C28_Witness ==
    \E i \in Tasks :
        /\ urls[i] = "https://example.com/f.PDF" /\ Back(i)
        /\ result[i].error = "URL excluded by pattern"
        /\ visited_urls = {}

\* the url field a result for the raw URL url can carry: the raw URL (skips
\* and exceptions), its canonical form, or that of the URL it was redirected to
UrlFieldsFor(url) ==
    {url, Normalized[url]} \cup {Normalized[final] : final \in RedirectUrls \ {""}}

\* C34: scrape_multiple_urls returns exactly len(urls) results, and result i
\* is what task i (scrape_url(urls[i])) returned, for every interleaving of
\* the fetches and also when the GET of a task raised an exception.
C34_ResultsFollowUrls ==
    /\ [](processed_results # <<>> =>
              /\ Len(processed_results) = Len(urls)
              /\ \A i \in Tasks :
                     /\ processed_results[i] = result[i]
                     /\ processed_results[i].url \in UrlFieldsFor(urls[i]))
    /\ [][processed_results # <<>> => processed_results' = processed_results]_vars

\* a batch of two pages, both fetched at once: the GET of the first raised an
\* exception, the second was answered 200, and each result is at its index
C34_Witness ==
    /\ Len(urls) = 2 /\ max_concurrent = 2
    /\ Len(processed_results) = 2
    /\ processed_results[1] = Result("Unexpected error", urls[1], 0)
    /\ processed_results[2] = Result("", Normalized[urls[2]], 200)
    /\ urls[1] # urls[2]

\* task i came back with a Success page result
IsSuccess(i) == Back(i) /\ result[i].error = "" /\ result[i].status_code = 200

\* C35: no two Success page results of one scraper instance carry the same
\* url field.
C35_SuccessUrlsAreDistinct ==
    \A i, j \in Tasks :
        (i # j /\ IsSuccess(i) /\ IsSuccess(j)) => result[i].url # result[j].url

-----------------------------------------------------------------------------
(* Claims about normalize_url, under SpecNormalize *)

\* C8: normalize_url(normalize_url(u)) = normalize_url(u) for every URL u.
C8_NormalizeIdempotent == nz_pc = "twice" => nz_twice = nz_once

-----------------------------------------------------------------------------
(* Claims about the crawl jobs, under SpecWebsite and SpecEnhanced *)

\* C2: at the end of a crawl job the number of pages collected is at most
\* max_pages.
C2_PageCapAtJobEnd ==
    sw_pc = "done" => Len(sw_scraped_pages) <= sw_max_pages

\* C3: the canonical forms of the URLs a job issues a fetch for are pairwise
\* distinct.
C3_NoCanonicalUrlFetchedTwice ==
    \A i, j \in 1..Len(sw_dispatched) :
        i # j => normalize_url(sw_dispatched[i]) # normalize_url(sw_dispatched[j])

\* C5: every URL dispatched for fetch has exactly one page result, a Success
\* or a Failure, in the page list of the job's result.
C5_OneResultPerDispatchedUrl ==
    sw_pc = "done" =>
        \A k \in 1..Len(sw_dispatched) :
            Cardinality({n \in 1..Len(sw_scraped_pages) :
                            sw_scraped_pages[n].url = sw_dispatched[k]}) = 1

\* C6: a fetch error on a page never aborts the job: the job ends completed,
\* having gone through the remaining URLs, with every page it collected in
\* its result.
C6_FetchErrorNeverAbortsJob ==
    se_pc = "done" =>
        /\ se_task.status = "completed"
        /\ se_task.pages = se_scraped_pages
        /\ se_urls_to_scrape = <<>> \/ Len(se_scraped_pages) >= se_max_pages

\* C11: no URL is fetched in a round whose index exceeds depth - 1 (the seed
\* is round 0, the links of round k's pages are round k + 1), and the frontier
\* never holds the URLs of such a round.
C11_DepthCap ==
    /\ \A k \in 1..Len(sw_rounds) : sw_rounds[k] <= sw_depth - 1
    /\ sw_urls_to_visit # <<>> => sw_current_depth <= sw_depth - 1

\* a job of depth 2 fetched a page in round 1 that links to a URL not yet
\* visited, and ended without fetching it
C11_Witness ==
    /\ sw_pc = "done" /\ sw_depth = 2
    /\ \E k \in 1..Len(sw_rounds) : sw_rounds[k] = 1
    /\ \E n \in 1..Len(sw_scraped_pages) :
           /\ sw_scraped_pages[n].url = "http://example.com/a"
           /\ \E m \in 1..Len(sw_scraped_pages[n].links) :
                  /\ sw_scraped_pages[n].links[m] = "http://example.com/a/"
                  /\ sw_scraped_pages[n].links[m] \notin sw_visited_urls

\* the depth cap in the loop of scrape_enhanced: links are followed from the
\* first page only, and only when depth > 1
SeDepthCap == \A k \in 1..Len(se_fetched) : se_round[se_fetched[k]] <= se_depth - 1

\* the loop of scrape_enhanced ends: the handler returns
SeTerminates == <>(se_pc = "done")

\* the fetches still awaited
SwInFlight == {k \in 1..Len(sw_tasks) : sw_results[k] = SwPending}

\* C12: rounds do not overlap: wherever the job is at the top of its loop,
\* the only place a round's fetches are dispatched from, every fetch of the
\* rounds before has completed; the fetches in flight are those of the
\* current round.
C12_RoundsDoNotOverlap ==
    /\ sw_pc # "gather" => SwInFlight = {}
    /\ \A k \in SwInFlight :
           sw_rounds[Len(sw_rounds) - Len(sw_tasks) + k] = sw_current_depth

\* round 1 has two fetches, one in flight and one back, after round 0 ended
C12_Witness ==
    /\ sw_pc = "gather" /\ sw_current_depth = 1 /\ Len(sw_tasks) = 2
    /\ Cardinality(SwInFlight) = 1
    /\ sw_rounds = <<0, 1, 1>>

\* C13: the job ends (every fetch returning); it never runs more than depth
\* rounds; at the top of the loop it ends at once when the frontier is empty,
\* or the pages collected are max_pages or more, or current_depth is depth;
\* and once it has ended nothing is dispatched.
C13_JobTerminates ==
    /\ <>(sw_pc = "done")
    /\ [](sw_current_depth <= sw_depth)
    /\ [][(/\ sw_pc = "loop"
           /\ \/ sw_urls_to_visit = <<>>
              \/ Len(sw_scraped_pages) >= sw_max_pages
              \/ sw_current_depth = sw_depth) => sw_pc' = "done"]_vars
    /\ [][sw_pc = "done" => UNCHANGED <<sw_pc, sw_dispatched, sw_tasks>>]_vars

\* a job that ended because its frontier was empty, after two rounds
C13_Witness ==
    /\ sw_pc = "done" /\ sw_urls_to_visit = <<>>
    /\ sw_current_depth = 2 /\ Len(sw_dispatched) = 3
    /\ Len(sw_scraped_pages) < sw_max_pages

\* a job with depth 1 and max_pages 1 that has ended
SwOnePageJob == sw_pc = "done" /\ sw_depth = 1 /\ sw_max_pages = 1

C22_SinglePageNeverRaises ==
    /\ [](\A k \in 1..Len(sw_results) :
              sw_results[k] # SwPending => sw_results[k].url = sw_tasks[k])
    /\ [][\A k \in 1..Len(sw_tasks), status \in SwStatusCodes :
              /\ (status # 200 /\ SwPageDone(k, status, <<>>, FALSE)) =>
                     sw_results'[k] = [error |-> "HTTP " \o ToString(status),
                                       url |-> sw_tasks[k],
                                       links |-> <<>>, links_count |-> 0]
              /\ SwPageDone(k, 200, <<>>, TRUE) =>
                     (sw_results'[k].error # "" /\ sw_results'[k].url = sw_tasks[k])]_vars

\* a round of two fetches ended with "HTTP 404" for one URL and with an
\* exception for the other
C22_Witness ==
    /\ sw_pc = "gather" /\ Len(sw_results) = 2
    /\ sw_results[1] = SwError(sw_tasks[1], "HTTP 404")
    /\ sw_results[2] = SwError(sw_tasks[2], "exception")

\* the elements of a sequence
Range(seq) == {seq[k] : k \in 1..Len(seq)}

\* C26: in scrape_website_async with depth >= 2, once the round of the seed
\* (a round before the last one) has been collected, every same-site link of
\* the seed's page that was not visited is in the frontier of the next round,
\* whatever include_images is.
C26_LinksFeedFrontier ==
    (/\ sw_fn = "scrape_website_async" /\ sw_depth >= 2
     /\ sw_pc = "loop" /\ sw_current_depth = 1 /\ Len(sw_scraped_pages) = 1) =>
        \A link_url \in Range(sw_scraped_pages[1].links) :
            SwFollow(link_url) => link_url \in Range(sw_urls_to_visit)

\* the least index of x in seq
Pos(seq, x) == CHOOSE k \in 1..Len(seq) : seq[k] = x /\ \A m \in 1..(k - 1) : seq[m] # x

\* the pages of the job follow the order of the URLs in seq
PagesFollow(seq) ==
    \A n, m \in 1..Len(sw_scraped_pages) :
        n < m => Pos(seq, sw_scraped_pages[n].url) < Pos(seq, sw_scraped_pages[m].url)

\* C24, as stated: the pages of the job are in the order in which their
\* fetches completed.
C24_PagesInCompletionOrder == PagesFollow(sw_completed)

\* C24, amended: the pages of the job are in the order in which their URLs
\* were dispatched (the order of the tasks handed to asyncio.gather), whatever
\* the order in which the fetches completed.
C24_PagesInDispatchOrder == PagesFollow(sw_dispatched)

\* two pages of one round are in the job's list although the fetch of the
\* second finished before the fetch of the first
C24_Witness ==
    /\ Len(sw_scraped_pages) = 3
    /\ sw_rounds = <<0, 1, 1>>
    /\ Pos(sw_completed, sw_scraped_pages[3].url) < Pos(sw_completed, sw_scraped_pages[2].url)

\* the links of page that the loop over the results appends to urls_to_visit
Followed(page) ==
    {link_url \in Range(page.links) :
        StartsWith(link_url, sw_url) /\ link_url \notin sw_visited_urls}

\* C25, as stated: every URL of the frontier of a round after the first was
\* discovered on the first page of the job.
C25_FrontierFromFirstPageOnly ==
    (sw_pc = "loop" /\ sw_current_depth >= 1 /\ Len(sw_scraped_pages) >= 1) =>
        Range(sw_urls_to_visit) \subseteq Range(sw_scraped_pages[1].links)

\* C25, amended (scrape_website and scrape_website_async): once a round is
\* collected, the frontier holds links of the pages fetched in that round only,
\* and only if that round's depth is below depth - 1; and it then holds the
\* same-site, not visited links of every page of the round, not of the first
\* page of the job only (in scrape_website_async when include_images is set).
C25_FrontierFromEveryPageOfRound ==
    (sw_pc = "loop" /\ sw_current_depth >= 1) =>
        /\ \A link_url \in Range(sw_urls_to_visit) :
               /\ sw_current_depth - 1 < sw_depth - 1
               /\ \E k \in 1..Len(sw_results) :
                      sw_results[k].error = "" /\ link_url \in Followed(sw_results[k])
        /\ (/\ sw_current_depth - 1 < sw_depth - 1
            /\ sw_fn = "scrape_website_async" => sw_include_images) =>
               \A k \in 1..Len(sw_results) :
                   sw_results[k].error = "" =>
                       Followed(sw_results[k]) \subseteq Range(sw_urls_to_visit)

\* the frontier of the third round holds a link of the second page of the
\* job that the first page does not hold
C25_Witness ==
    /\ sw_pc = "loop" /\ sw_current_depth = 2 /\ sw_depth = 3
    /\ Len(sw_scraped_pages) = 2
    /\ sw_urls_to_visit = <<"http://example.com/a/">>
    /\ "http://example.com/a/" \notin Range(sw_scraped_pages[1].links)
    /\ "http://example.com/a/" \in Range(sw_scraped_pages[2].links)

\* the sum of f[k] over the indices k of f
RECURSIVE SumOf(_)
SumOf(f) == IF f = <<>> THEN 0 ELSE f[Len(f)] + SumOf(SubSeq(f, 1, Len(f) - 1))

-----------------------------------------------------------------------------
(* Claims about _calculate_quality_score, under SpecQuality *)

\* C14: for every content and every HTML length the score returned lies in
\* [0.0, 1.0] (0 to 100 hundredths).
C14_QualityScoreInUnitInterval ==
    qs_pc = "scored" => qs_score >= 0 /\ qs_score <= 100

\* a page whose additions sum to 1.1 was scored 1.0
C14_Witness ==
    /\ qs_pc = "scored" /\ qs_score = 100
    /\ QsSum(qs_content, qs_html_length) = 110

\* the greatest element of a finite set of numbers
Greatest(S) == CHOOSE x \in S : \A y \in S : y <= x

\* the points of the main-content length: those of the highest tier it exceeds
LengthPoints(text_length) ==
    Greatest({0} \cup {t[2] : t \in {t \in {<<500, 30>>, <<200, 20>>, <<100, 10>>} :
                                         text_length > t[1]}})

\* the points of the ratio text_length / html_length: 10 above 0.1, 5 above
\* 0.05, none for an empty HTML
RatioPoints(text_length, html_length) ==
    Greatest({0} \cup {t[2] : t \in {t \in {<<10, 10>>, <<20, 5>>} :
                                         html_length > 0 /\ t[1] * text_length > html_length}})

\* C32: the score is min(1.0, sum) of the components: 0.2 for a title of more
\* than 10 characters, the points of the highest tier of the main-content
\* length, 0.2 for any heading, 0.2 for any paragraph, 0.1 for more than 3
\* paragraphs, and the points of the text-to-HTML ratio (in hundredths).
C32_ScoreIsCappedSumOfTiers ==
    qs_pc = "scored" =>
        LET sum == (IF qs_content.title > 10 THEN 20 ELSE 0)
                   + LengthPoints(qs_content.main_content)
                   + (IF qs_content.headings >= 1 THEN 20 ELSE 0)
                   + (IF qs_content.paragraphs >= 1 THEN 20 ELSE 0)
                   + (IF qs_content.paragraphs > 3 THEN 10 ELSE 0)
                   + RatioPoints(qs_content.main_content, qs_html_length)
        IN  qs_score = (IF sum > 100 THEN 100 ELSE sum)

\* a main content of 501 characters in 10000 characters of HTML got 0.3 for
\* its length (not 0.6) and 0.05 for its ratio
C32_Witness ==
    /\ qs_pc = "scored"
    /\ qs_content = [title |-> 0, main_content |-> 501, headings |-> 0, paragraphs |-> 0]
    /\ qs_html_length = 10000
    /\ qs_score = 35

-----------------------------------------------------------------------------
(* Claims about the test API, under SpecApi and SpecApiLive *)

Posted == {api_runs[r].task_id : r \in 1..Len(api_runs)}

\* C19: GET /result/{task_id} serves no result for a task that is not
\* completed: for an unknown task the answer is 404, for a pending, processing
\* or failed task 400; and whenever the status is "completed" the result is
\* stored and is what the handler serves, with code 200.
C19_ResultOnlyWhenCompleted ==
    \A task_id \in TaskIds :
        /\ task_id \notin DOMAIN task_status =>
               get_scraping_result(task_id) = Answer(404, "", "", 0)
        /\ (task_id \in DOMAIN task_status /\ task_status[task_id].status # "completed") =>
               get_scraping_result(task_id) = Answer(400, "", "", 0)
        /\ (task_id \in DOMAIN task_status /\ task_status[task_id].status = "completed") =>
               /\ task_id \in DOMAIN scraping_results
               /\ scraping_results[task_id] = task_status[task_id].result
               /\ get_scraping_result(task_id) = Answer(200, "", "", scraping_results[task_id])

\* a task that completed was started again under the same id: its earlier
\* result is still stored, the task is pending, and GET /result answered 400
C19_Witness ==
    \E task_id \in TaskIds :
        /\ task_id \in DOMAIN scraping_results
        /\ task_status[task_id].status = "pending"
        /\ api_response = Answer(400, "", "", 0)

StatusIn(task_id, statuses) ==
    task_id \in DOMAIN task_status /\ task_status[task_id].status \in statuses

\* C20: from the return of the POST on, GET /task/{task_id} answers 200 with
\* the id of the task, and the task reaches "completed" or "failed" whenever
\* it is pending or processing (every crawl returning or raising).
C20_TaskVisibleAndEnds ==
    /\ [](\A task_id \in Posted :
              /\ get_task_status(task_id).code = 200
              /\ get_task_status(task_id).task_id = task_id)
    /\ \A task_id \in TaskIds :
           StatusIn(task_id, {"pending", "processing"})
               ~> StatusIn(task_id, {"completed", "failed"})

\* a task whose crawl raised is failed, and GET /task answered 200 for it
C20_Witness ==
    \E r \in 1..Len(api_runs) :
        /\ api_runs[r].pc = "done" /\ api_runs[r].endpoint = "scrape"
        /\ task_status[api_runs[r].task_id].status = "failed"
        /\ task_status[api_runs[r].task_id].error = "raised"
        /\ api_response = Answer(200, api_runs[r].task_id, "failed", 0)

\* C21: GET /task/{task_id} and GET /result/{task_id} answer 404 for every id
\* that no POST has returned, and a step that only answers a GET (no run is
\* created and none moves) leaves task_status and scraping_results as they were.
C21_UnknownTaskIs404 ==
    /\ [](\A task_id \in TaskIds \ Posted :
              /\ get_task_status(task_id).code = 404
              /\ get_scraping_result(task_id).code = 404)
    /\ [][api_runs' = api_runs =>
              (task_status' = task_status /\ scraping_results' = scraping_results)]_vars

\* a GET for an id that was never created answered 404 while another task is
\* stored
C21_Witness ==
    /\ Posted # {} /\ Posted # TaskIds
    /\ DOMAIN task_status = Posted
    /\ api_response = Answer(404, "", "", 0)

\* the moves of a task's status the claim allows in one step
StatusMoves ==
    {<<"pending", "processing">>, <<"processing", "completed">>, <<"processing", "failed">>}

\* C37: a task's status only moves pending -> processing -> completed or
\* failed, and the entry of a task that is completed or failed never changes
\* again.
C37_StatusOnlyMovesForward ==
    [][\A task_id \in DOMAIN task_status :
           /\ task_id \in DOMAIN task_status'
           /\ \/ task_status'[task_id] = task_status[task_id]
              \/ /\ task_status[task_id].status \notin {"completed", "failed"}
                 /\ <<task_status[task_id].status, task_status'[task_id].status>> \in StatusMoves]_vars

-----------------------------------------------------------------------------
(* Claims about ContentExtractor, under SpecExtract *)

\* the element lies in none of the script, style, nav, footer and header
\* elements of the document, and is none of them
Outside(element) == element.tag \notin Removed /\ element.within \notin Removed

\* the cleaned text of the element is longer than 30 characters and has at
\* least 5 words
LongEnough(element) ==
    Len(CleanText[element.text]) > 30 /\ WordCount[CleanText[element.text]] >= 5

\* C23, as stated: a <p> element of the document is in the paragraphs list if
\* and only if its cleaned text is longer than 30 characters and has at least
\* 5 words.
C23_ParagraphKeptIffLongEnough ==
    ex_pc # "parsed" =>
        \A k \in 1..Len(ex_html) :
            ex_html[k].tag = "p" =>
                (CleanText[ex_html[k].text] \in Range(ex_content.paragraphs)
                    <=> LongEnough(ex_html[k]))

\* C23, amended: the paragraphs list holds, in document order, the cleaned
\* text of every <p> element that lies outside the script, style, nav, footer
\* and header elements and whose cleaned text is longer than 30 characters and
\* has at least 5 words, and nothing else.
C23_ParagraphOutsideKeptIffLongEnough ==
    ex_pc # "parsed" =>
        ex_content.paragraphs =
            Paragraphs(SelectSeq(ex_html, LAMBDA element :
                           element.tag = "p" /\ Outside(element) /\ LongEnough(element)))

\* of a paragraph of 15 characters and one of 45 characters (and 9 words) the
\* second alone was extracted
C23_Witness ==
    /\ ex_pc = "done"
    /\ ex_html = <<Element("p", "Short text here", ""),
                   Element("p", "This paragraph of text has got nine words in.", "")>>
    /\ ex_content.paragraphs = <<"This paragraph of text has got nine words in.">>

\* C29: once scrape_url has extracted the structured data of a page, the
\* value of every JSON-LD script of the page whose body is valid JSON is in it.
C29_JsonLdInStructuredData ==
    ex_pc = "done" =>
        \A k \in 1..Len(ex_html) :
            (ex_html[k].tag = "script" /\ JsonLoads[ex_html[k].text].ok) =>
                JsonLoads[ex_html[k].text].value \in Range(ex_structured)

\* C30: every text extract_main_content returns (the title, the text of a
\* heading, a paragraph) is the cleaned text of an element that lies outside
\* the script, style, nav, footer and header elements of the document.
C30_NoTextFromRemovedElements ==
    ex_pc # "parsed" =>
        \A text \in {ex_content.title}
                    \cup {ex_content.headings[k].text : k \in 1..Len(ex_content.headings)}
                    \cup Range(ex_content.paragraphs) :
            text = "" \/ \E k \in 1..Len(ex_html) :
                             Outside(ex_html[k]) /\ CleanText[ex_html[k].text] = text

\* the anchors extract_links has to report: a non-empty href that is not a
\* fragment of the page
Reported(element) ==
    element.tag = "a" /\ Strip(element.href) # "" /\ ~StartsWith(Strip(element.href), "#")

\* the type the claim gives a link: by the host of its canonical URL
TypeByHost(url) ==
    IF urlparse(url).netloc = urlparse(ExBaseUrl).netloc THEN "internal"
    ELSE IF urlparse(url).netloc = "" THEN "relative"
    ELSE "external"

\* the entries are one per canonical URL, each classified by its host
LinksDistinctAndTyped ==
    /\ \A j, k \in 1..Len(ex_links) : ex_links[j].url = ex_links[k].url => j = k
    /\ \A j \in 1..Len(ex_links) : ex_links[j].type = TypeByHost(ex_links[j].url)

\* C31: the links of a scraped page hold one entry for every anchor of the
\* page whose href is neither empty nor a fragment, one per canonical URL,
\* classified internal, relative or external by the host of that URL.
C31_EveryAnchorHasEntry ==
    ex_pc \in {"links", "done"} =>
        /\ LinksDistinctAndTyped
        /\ \A k \in 1..Len(ex_html) :
               Reported(ex_html[k]) =>
                   \E j \in 1..Len(ex_links) : ex_links[j].url = LinkUrl[Strip(ex_html[k].href)]

\* C36: extract_main_content leaves the results of the extractors that run
\* after it as they are on the parsed document.
C36_MainContentLeavesOthersAlone ==
    ex_pc = "done" =>
        /\ ex_links = extract_links(ex_html, ExBaseUrl)
        /\ ex_structured = extract_structured_data(ex_html)

-----------------------------------------------------------------------------
(* Claims about ConnectionPool, under SpecPoolLive *)

\* client c is inside the while loop of get_connection
CpWaiting(c) == cp_pc[c] \in {"waiting", "sleep"}

\* C38: a get_connection call that found no idle connection with
\* max_connections handed out returns a connection once another client has
\* called return_connection.
C38_ExhaustedGetReturns ==
    \A c \in Clients :
        (c \in DOMAIN cp_pc /\ CpWaiting(c) /\ \E d \in Clients : cp_pc[d] = "return")
            ~> (c \in DOMAIN cp_pc /\ cp_pc[c] = "has")

-----------------------------------------------------------------------------
(* Claims about RequestBatcher, under SpecBatcherLive *)

\* C39: every add_request call eventually gets the response of its request,
\* whatever further calls are made.
C39_EveryRequestIsAnswered ==
    \A r \in Requests :
        (r \in DOMAIN rb_future /\ rb_future[r] = "pending")
            ~> (r \in DOMAIN rb_future /\ rb_future[r] \in RbOutcomes)

====
